---------------------------- MODULE Spec2Model ----------------------------
(***************************************************************************)
(* A model of the Seekers game: the per-tick physics / collision / scoring *)
(* state machine (seekers/game/*.py), the game loop (seekers/game.py), the *)
(* polling of local players (seekers/game/player.py) and the gRPC command  *)
(* path (seekers/net/server.py, seekers/grpc/client.py).                   *)
(*                                                                         *)
(* Numbers.  The program computes with floats; the model computes with     *)
(* integers on a grid.  Vector.normalized() is the sign vector (the unit   *)
(* vectors of the grid), the friction factor 1 - friction is a fraction    *)
(* applied with truncation, and bump(r) is 1 inside its support and 0      *)
(* outside.  Everything else (order of the steps, comparisons, wrap        *)
(* around, resets) is computed as the code computes it.                    *)
(***************************************************************************)
EXTENDS Integers, Sequences, FiniteSets, TLC

VARIABLES
    cfg,            \* Config + SeekersGame flags (immutable after Init)
    players,        \* SeekersGame.players: id -> [kind, ai, score]
    seekers,        \* all seekers: id -> [owner, position, velocity, target, magnet, disabled_counter]
    goals,          \* SeekersGame.goals: sequence of [position, velocity, owner, time_owned]
    rng,            \* state of the global random generator
    ticks,          \* SeekersGame.ticks
    pc,             \* position of the game thread in SeekersGame.mainloop
    running,        \* local variable `running` of mainloop
    frame_i,        \* iterations of `for _ in range(global_speed)` done in this frame
    poll_idx,       \* the player mainloop's poll loop is at
    ai_output,      \* what call_ai returned (or raised) for the player being polled
    ai_players,     \* LocalPlayer._ai_players: the scores frozen by init_ai_state; for
                    \* an AI that writes to its input, _ai_seekers and _ai_goals as well
    was_updated,    \* GrpcClientPlayer.was_updated, one Event per player
    next_game_tick_event, \* GrpcSeekersServicer.next_game_tick_event
    current_status, \* GrpcSeekersServicer.current_status
    handler,        \* the Command handler thread serving each client
    client,         \* GrpcSeekersClient of each network player: its mirrors
    hist            \* observations kept for the properties (no action reads them): the
                    \* start, the points of the last tick, whether QUIT came, which goals
                    \* the physics moved before their first point, the tick of that point,
                    \* whether a poll timed out, which was_updated signals were set
                    \* before the last physics step began, whether such a signal let a
                    \* poll of this round pass

vars == <<cfg, players, seekers, goals, rng, ticks, pc, running, frame_i, poll_idx,
          ai_output, ai_players, was_updated, next_game_tick_event, current_status,
          handler, client, hist>>

\* Goal.owner = None: no player
NoOwner == 0
\* an ai_output, a status or a mirror that is None
NoOutput == [kind |-> "none"]
NoStatus == [none |-> TRUE]

----------------------------------------------------------------------------
(* Bounds of the model *)

MaxPlaytime == 3
MaxSpeed == 3

----------------------------------------------------------------------------
(* Config: one small instance of the typed parameter bag *)

\* seekers/game/config.py Config: the fields every modelled game shares
config ==
    [ global_players |-> 2, global_goals |-> 2,
      map_width |-> 8, map_height |-> 8,
      camp_width |-> 4, camp_height |-> 4,
      seeker_thrust |-> 2, seeker_magnet_slowdown |-> [num |-> 1, den |-> 2],
      seeker_radius |-> 1, seeker_mass |-> 1,
      seeker_friction |-> [num |-> 1, den |-> 2],
      goal_thrust |-> 1, goal_radius |-> 1, goal_mass |-> 1,
      goal_friction |-> [num |-> 1, den |-> 2] ]

PlayerIds == 1 .. config.global_players
GoalIdx == 1 .. config.global_goals

\* SeekersGame.start gives every player global_seekers seekers, in player order:
\* the ids of all seekers, and the player whose seekers dict holds seeker s
SeekerIds(c) == 1 .. (config.global_players * c.global_seekers)
OwnerOf(s, c) == ((s - 1) \div c.global_seekers) + 1

\* player.seekers of player p, as ids into the seekers S
SeekersOf(S, p) == { s \in DOMAIN S : S[s].owner = p }

----------------------------------------------------------------------------
(* Vector *)

Vec(x, y) == [x |-> x, y |-> y]
ZeroVec == Vec(0, 0)
VAdd(a, b) == Vec(a.x + b.x, a.y + b.y)
VSub(a, b) == Vec(a.x - b.x, a.y - b.y)
VMul(a, k) == Vec(k * a.x, k * a.y)
Dot(a, b) == a.x * b.x + a.y * b.y
squared_length(a) == a.x * a.x + a.y * a.y
Abs(n) == IF n < 0 THEN -n ELSE n
Sgn(n) == IF n > 0 THEN 1 ELSE IF n < 0 THEN -1 ELSE 0
\* integer division rounding toward zero
Trunc(a, b) == IF a >= 0 THEN a \div b ELSE -((-a) \div b)
\* Vector.normalized: the zero vector for a zero vector, else the grid's unit vector
normalized(a) == IF squared_length(a) = 0 THEN ZeroVec ELSE Vec(Sgn(a.x), Sgn(a.y))

----------------------------------------------------------------------------
(* World *)

\* World.normalize_position: pos -= floor(pos / size) * size, per axis
normalize_position(pos) ==
    Vec(pos.x - (pos.x \div config.map_width) * config.map_width,
        pos.y - (pos.y \div config.map_height) * config.map_height)

diff1d(length, a, b) ==
    LET delta == Abs(a - b)
    IN  IF delta < length - delta THEN b - a ELSE a - b

\* World.torus_difference(left, right)
torus_difference(left, right) ==
    Vec(diff1d(config.map_width, left.x, right.x),
        diff1d(config.map_height, left.y, right.y))

\* World.torus_direction(left, right)
torus_direction(left, right) == normalized(torus_difference(left, right))

Positions == { Vec(x, y) : x \in 0 .. (config.map_width - 1), y \in 0 .. (config.map_height - 1) }

\* the global generator: random.seed(s) sets the state, every draw advances it
RngNext(r) == (5 * r + 3) % 16

\* World.random_position: two draws, uniform(0, width) and uniform(0, height)
random_position(r) ==
    LET r1 == RngNext(r)
        r2 == RngNext(r1)
    IN  [position |-> Vec(r1 % config.map_width, (r2 \div 2) % config.map_height), rng |-> r2]

----------------------------------------------------------------------------
(* Camp *)

\* World.generate_camps: camp i (0-based) is centred at (width / 2, delta * (i + 0.5))
CampOf(p) ==
    LET delta == config.map_height \div config.global_players
    IN  [owner |-> p,
         position |-> Vec(config.map_width \div 2, (delta * (2 * (p - 1) + 1)) \div 2),
         width |-> config.camp_width, height |-> config.camp_height]

\* SeekersGame.camps, in enumeration order
camps == [p \in PlayerIds |-> CampOf(p)]

\* Camp.contains
contains(camp, pos) ==
    LET delta == VSub(camp.position, pos)
    IN  2 * Abs(delta.x) < camp.width /\ 2 * Abs(delta.y) < camp.height

----------------------------------------------------------------------------
(* Magnet, Seeker, Goal, Physical *)

\* the strengths the modelled AIs and clients ask for; Magnet accepts -8 .. 1
MagnetStrengths == {-8, 0, 1}

\* Magnet.is_on
is_on(strength) == strength # 0

\* Seeker.is_disabled
is_disabled(s) == s.disabled_counter > 0

\* Seeker.magnet_effective
magnet_effective(s) == is_on(s.magnet) /\ ~is_disabled(s)

\* Seeker.disable
disable(s, c) == [s EXCEPT !.disabled_counter = c.seeker_disabled_time]

\* Seeker.thrust: base_thrust * magnet_slowdown while the magnet is on
seeker_thrust(s) ==
    IF is_on(s.magnet)
    THEN Trunc(config.seeker_thrust * config.seeker_magnet_slowdown.num,
               config.seeker_magnet_slowdown.den)
    ELSE config.seeker_thrust

\* Seeker.update_acceleration
seeker_acceleration(s) ==
    IF s.disabled_counter = 0 THEN torus_direction(s.position, s.target) ELSE ZeroVec

\* velocity *= 1 - friction
apply_friction(v, friction) ==
    Vec(Trunc(v.x * (friction.den - friction.num), friction.den),
        Trunc(v.y * (friction.den - friction.num), friction.den))

\* Physical.move: friction, acceleration * thrust, displacement, normalize
move(e, acceleration, thrust, friction) ==
    LET v1 == apply_friction(e.velocity, friction)
        v2 == VAdd(v1, VMul(acceleration, thrust))
    IN  [e EXCEPT !.velocity = v2, !.position = normalize_position(VAdd(e.position, v2))]

\* bump(r * 10) for r = distance / diameter: 1 where the code's bump is positive
\* (10 * distance < diameter), 0 elsewhere
bump(torus_diff) ==
    IF 100 * squared_length(torus_diff)
          < config.map_width * config.map_width + config.map_height * config.map_height
    THEN 1 ELSE 0

\* Seeker.magnetic_force(world, pos)
magnetic_force(s, pos) ==
    LET torus_diff == torus_difference(s.position, pos)
        direction == normalized(torus_diff)
    IN  IF is_disabled(s) THEN ZeroVec
        ELSE VMul(direction, -(s.magnet * bump(torus_diff)))

\* Physical.collision(self, other): elastic exchange along the normal, then separation
physical_collision(a, b) ==
    LET min_dist == a.radius + b.radius
        d == torus_difference(a.position, b.position)
        dn == normalized(d)
        dv == VSub(b.velocity, a.velocity)
        msum == a.mass + b.mass
        dvdn == Dot(dv, dn)
        va == IF dvdn < 0 THEN VAdd(a.velocity, VMul(dn, Trunc(2 * b.mass * dvdn, msum)))
              ELSE a.velocity
        vb == IF dvdn < 0 THEN VSub(b.velocity, VMul(dn, Trunc(2 * a.mass * dvdn, msum)))
              ELSE b.velocity
        ddn == Dot(d, dn)
        pa == IF ddn < min_dist THEN VAdd(a.position, VMul(dn, ddn - min_dist)) ELSE a.position
        pb == IF ddn < min_dist THEN VSub(b.position, VMul(dn, ddn - min_dist)) ELSE b.position
    IN  << [a EXCEPT !.velocity = va, !.position = pa],
           [b EXCEPT !.velocity = vb, !.position = pb] >>

\* a collision rule that disables both seekers whatever their magnets are
seeker_disable_both(a, b, c) == << disable(a, c), disable(b, c) >>

\* the three `if` statements of Seeker.collision, in the code's order
seeker_disable_rule(a, b, c) ==
    LET none == ~(magnet_effective(a) \/ magnet_effective(b))
        a1 == IF none THEN disable(a, c) ELSE a
        b1 == IF none THEN disable(b, c) ELSE b
        a2 == IF magnet_effective(a1) THEN disable(a1, c) ELSE a1
        b2 == IF magnet_effective(b1) THEN disable(b1, c) ELSE b1
    IN  << a2, b2 >>

\* Seeker.collision(self, other, world)
seeker_collision(a, b, c) ==
    LET r == seeker_disable_rule(a, b, c)
    IN  physical_collision(r[1], r[2])

----------------------------------------------------------------------------
(* game_logic.tick *)

\* "move and recover seekers": s.move(world), then the disabled counter counts down
move_seekers(S) ==
    [s \in DOMAIN S |->
        LET m == move(S[s], seeker_acceleration(S[s]), seeker_thrust(S[s]),
                      config.seeker_friction)
        IN  IF is_disabled(m) THEN [m EXCEPT !.disabled_counter = @ - 1] ELSE m]

RECURSIVE sum_forces(_, _, _)
\* g.acceleration = Vector(0, 0); for s in seekers: g.acceleration += s.magnetic_force(...)
sum_forces(S, pos, n) ==
    IF n = 0 THEN ZeroVec
    ELSE VAdd(sum_forces(S, pos, n - 1), magnetic_force(S[n], pos))

\* "compute magnetic forces and move goals"
move_goals(S, G) ==
    [i \in DOMAIN G |->
        move(G[i], sum_forces(S, G[i].position, Cardinality(DOMAIN S)),
             config.goal_thrust, config.goal_friction)]

\* physicals = seekers + goals, as one list
physicals(S, G) ==
    [k \in 1 .. (Cardinality(DOMAIN S) + Len(G)) |->
        IF k <= Cardinality(DOMAIN S) THEN S[k] ELSE G[k - Cardinality(DOMAIN S)]]

is_seeker(S, k) == k <= Cardinality(DOMAIN S)

\* one pair (i, j) of the collision loop
collide_pair(P, S, i, j, c) ==
    LET d == squared_length(torus_difference(P[j].position, P[i].position))
        min_dist == P[i].radius + P[j].radius
        r == IF is_seeker(S, i) /\ is_seeker(S, j)
             THEN seeker_collision(P[i], P[j], c)
             ELSE physical_collision(P[i], P[j])
    IN  IF d < min_dist * min_dist
        THEN [P EXCEPT ![i] = r[1], ![j] = r[2]]
        ELSE P

RECURSIVE collide_from(_, _, _, _, _)
\* "handle collisions": for i, phys1 in enumerate(physicals): j = i + 1; while j < len: ...
collide_from(P, S, i, j, c) ==
    LET n == Cardinality(DOMAIN P)
    IN  IF i > n THEN P
        ELSE IF j > n THEN collide_from(P, S, i + 1, i + 2, c)
        ELSE collide_from(collide_pair(P, S, i, j, c), S, i, j + 1, c)

\* camp_tick with a strict comparison: the counter may sit at the threshold for a tick
camp_tick_late(g, camp, c) ==
    LET g1 == IF contains(camp, g.position)
              THEN IF g.owner = camp.owner
                   THEN [g EXCEPT !.time_owned = @ + 1]
                   ELSE [g EXCEPT !.time_owned = 0, !.owner = camp.owner]
              ELSE g
    IN  [goal |-> g1, captured |-> g1.time_owned > c.goal_scoring_time]

\* camp_tick that takes the new owner but lets the counter run on
camp_tick_no_reset(g, camp, c) ==
    LET g1 == IF contains(camp, g.position)
              THEN IF g.owner = camp.owner
                   THEN [g EXCEPT !.time_owned = @ + 1]
                   ELSE [g EXCEPT !.owner = camp.owner]
              ELSE g
    IN  [goal |-> g1, captured |-> g1.time_owned >= c.goal_scoring_time]

\* Goal.camp_tick(camp): the goal after the call and the value returned
camp_tick(g, camp, c) ==
    LET g1 == IF contains(camp, g.position)
              THEN IF g.owner = camp.owner
                   THEN [g EXCEPT !.time_owned = @ + 1]
                   ELSE [g EXCEPT !.time_owned = 0, !.owner = camp.owner]
              ELSE g
    IN  [goal |-> g1, captured |-> g1.time_owned >= c.goal_scoring_time]

\* a goal_scored that is worth two points
goal_scored_double(W, player, i) ==
    LET rp == random_position(W.rng)
    IN  [W EXCEPT !.players[player].score = @ + 2,
                  !.goals[i].position = rp.position,
                  !.goals[i].owner = NoOwner,
                  !.goals[i].time_owned = 0,
                  !.rng = rp.rng,
                  !.scored = Append(@, [goal |-> i, player |-> player,
                                        position |-> W.goals[i].position])]

\* goal_scored(player, goal_index, goals, animations, world) on the state W; `scored`
\* holds what the ScoreAnimations appended in this tick say: the goal, where it was, whose point
goal_scored(W, player, i) ==
    LET rp == random_position(W.rng)
    IN  [W EXCEPT !.players[player].score = @ + 1,
                  !.goals[i].position = rp.position,
                  !.goals[i].owner = NoOwner,
                  !.goals[i].time_owned = 0,
                  !.rng = rp.rng,
                  !.scored = Append(@, [goal |-> i, player |-> player,
                                        position |-> W.goals[i].position])]

RECURSIVE camps_loop(_, _, _, _)
\* for camp_ in camps: if g.camp_tick(camp_): goal_scored(camp_.owner, i, ...); break
camps_loop(W, i, k, c) ==
    IF k > Len(camps) THEN W
    ELSE LET r == camp_tick(W.goals[i], camps[k], c)
             W1 == [W EXCEPT !.goals[i] = r.goal]
         IN  IF r.captured THEN goal_scored(W1, camps[k].owner, i)
             ELSE camps_loop(W1, i, k + 1, c)

RECURSIVE scoring_from(_, _, _)
\* "handle goals and scoring": for i, g in enumerate(goals)
scoring_from(W, i, c) ==
    IF i > Len(W.goals) THEN W
    ELSE scoring_from(camps_loop(W, i, 1, c), i + 1, c)

\* the first block of tick (lines 21-26) on the state W = [players, seekers, goals, rng, scored]
tick_seekers(W) == [W EXCEPT !.seekers = move_seekers(W.seekers)]

\* tick, lines 28-54: the goals move, then the collisions
tick_physics(W, c) ==
    LET G1 == move_goals(W.seekers, W.goals)
        P == collide_from(physicals(W.seekers, G1), W.seekers, 1, 2, c)
        n == Cardinality(DOMAIN W.seekers)
    IN  [W EXCEPT !.seekers = [s \in DOMAIN W.seekers |-> P[s]],
                  !.goals = [i \in 1 .. Len(G1) |-> P[n + i]],
                  !.scored = << >>]

\* the rest of tick (lines 28-61): goals, collisions, scoring
tick_rest(W, c) == scoring_from(tick_physics(W, c), 1, c)

\* game_logic.tick
tick(W, c) == tick_rest(tick_seekers(W), c)

----------------------------------------------------------------------------
(* Decision functions (the AIs) *)

\* The input of a decision function, whoever builds it, is
\*   [me, seekers: id -> seeker, goals: sequence, scores: player -> score, time].
\* Its output is [kind |-> "raise"], [kind |-> "nonlist"] or
\*   [kind |-> "list", items |-> sequence of [id, target, magnet, flaw]].
\* An item is an element of the returned list: the id it carries, its target and its
\* magnet strength; flaw says what is wrong with the object ("none" for a Seeker with a
\* Vector target and a Magnet): "not_seeker" (some other object with an id),
\* "target_type" (target is no Vector), "target_y" (target.y is a string that float()
\* refuses), "magnet_type" (magnet is no Magnet).  A magnet strength outside [-8, 1]
\* stands for a Magnet whose _strength the function has written directly.

Ais == {"chase", "idle", "mimic", "wary", "flaky", "forgetful", "short", "foreign",
        "partial", "repeat"}

own_ids(in) == { s \in DOMAIN in.seekers : in.seekers[s].owner = in.me }
other_ids(in) == { s \in DOMAIN in.seekers : in.seekers[s].owner # in.me }
Min(S) == CHOOSE x \in S : \A y \in S : x <= y

Max(S) == CHOOSE x \in S : \A y \in S : y <= x

\* the order of my_seekers: the player's seekers dict in insertion order
RECURSIVE SortedSeq(_)
SortedSeq(S) == IF S = {} THEN << >> ELSE << Min(S) >> \o SortedSeq(S \ {Min(S)})

\* examples/ai-decide.py: seeker i goes for goal i; close to it, magnet on and home
chase_item(in, s, i) ==
    LET g == in.goals[((i - 1) % Len(in.goals)) + 1]
        near == squared_length(torus_difference(g.position, in.seekers[s].position)) < 4
    IN  IF near THEN [id |-> s, target |-> CampOf(in.me).position, magnet |-> 1,
                      flaw |-> "none"]
        ELSE [id |-> s, target |-> g.position, magnet |-> 0, flaw |-> "none"]

\* copies the target and magnet of the first seeker of another player
mimic_item(in, s) ==
    LET o == in.seekers[Min(other_ids(in))]
    IN  [id |-> s, target |-> o.target, magnet |-> o.magnet, flaw |-> "none"]

\* rams a disabled opponent, else pushes goals away from the opponent's seeker
wary_item(in, s) ==
    LET o == in.seekers[Min(other_ids(in))]
    IN  IF o.disabled_counter > 0
        THEN [id |-> s, target |-> o.position, magnet |-> 0, flaw |-> "none"]
        ELSE [id |-> s, target |-> o.position, magnet |-> -8, flaw |-> "none"]

\* returns the seekers as it got them
idle_item(in, s) ==
    [id |-> s, target |-> in.seekers[s].target, magnet |-> in.seekers[s].magnet,
     flaw |-> "none"]

\* returns a seeker of the other player (it is in other_seekers) in the first place
foreign_item(in, s, i) ==
    IF i = 1 THEN [chase_item(in, s, i) EXCEPT !.id = Min(other_ids(in))]
    ELSE chase_item(in, s, i)

\* returns its first seeker in every place of the list, each time with the target and
\* magnet meant for the seeker of that place
repeat_item(in, s, i) ==
    [chase_item(in, s, i) EXCEPT !.id = Min(own_ids(in))]

\* good elements, and a last element that is wrong in a way that changes with the
\* time: a magnet strength of 2, a target.y that is no number, no Seeker at all
partial_item(in, s, i) ==
    LET good == [id |-> s, target |-> in.goals[1].position, magnet |-> 1, flaw |-> "none"]
    IN  IF i < Cardinality(own_ids(in)) THEN good
        ELSE CASE in.time % 3 = 0 -> [good EXCEPT !.magnet = 2]
               [] in.time % 3 = 1 -> [good EXCEPT !.flaw = "target_y"]
               [] OTHER -> [good EXCEPT !.flaw = "not_seeker"]

items_of(in, ai) ==
    LET ids == SortedSeq(own_ids(in))
    IN  [i \in 1 .. Len(ids) |->
            CASE ai = "mimic" -> mimic_item(in, ids[i])
              [] ai = "wary" -> wary_item(in, ids[i])
              [] ai = "idle" -> idle_item(in, ids[i])
              [] ai = "foreign" -> foreign_item(in, ids[i], i)
              [] ai = "partial" -> partial_item(in, ids[i], i)
              [] ai = "repeat" -> repeat_item(in, ids[i], i)
              [] OTHER -> chase_item(in, ids[i], i)]

\* decide_function(*ai_input) of the AI named ai
decide(ai, in) ==
    CASE ai = "flaky" /\ in.time % 2 = 1 -> [kind |-> "raise"]
      [] ai = "forgetful" /\ in.time % 2 = 0 -> [kind |-> "nonlist"]
      [] ai = "short" -> [kind |-> "list", items |-> Tail(items_of(in, "chase"))]
      [] OTHER -> [kind |-> "list", items |-> items_of(in, ai)]

----------------------------------------------------------------------------
(* LocalPlayer *)

\* LocalPlayer.get_ai_input after update_ai_state: seekers and goals are copied from
\* the authoritative objects at every poll, the players (their scores) only by
\* init_ai_state, at the first poll
local_ai_input(p, P, S, G, frozen, time) ==
    [me |-> p,
     seekers |-> S,
     goals |-> [i \in 1 .. Len(G) |->
                  [position |-> G[i].position, owner |-> G[i].owner,
                   time_owned |-> G[i].time_owned]],
     scores |-> IF frozen = << >> THEN [q \in DOMAIN P |-> P[q].score] ELSE frozen,
     time |-> time]

\* a setter that clamps the value into the range instead of refusing it
magnet_set_clamped(strength, value) ==
    [strength |-> IF value > 1 THEN 1 ELSE IF value < -8 THEN -8 ELSE value,
     error |-> "none"]

\* Magnet.strength setter: the stored strength after `magnet.strength = value` and the
\* exception it raised
magnet_set(strength, value) ==
    IF 1 >= value /\ value >= -8
    THEN [strength |-> value, error |-> "none"]
    ELSE [strength |-> strength, error |-> "ValueError"]

\* one turn of the loop of process_ai_output for the element it: the seekers after it
\* and the exception that left it.  self.seekers is a dict, so an id that is not in it
\* raises KeyError, which the `except IndexError` does not catch.
apply_item(p, S, it) ==
    IF it.id \notin SeekersOf(S, p) THEN [seekers |-> S, error |-> "KeyError"]
    ELSE IF it.flaw \in {"not_seeker", "target_type", "magnet_type"}
    THEN [seekers |-> S, error |-> "InvalidAiOutputError"]
    ELSE IF it.flaw = "target_y"
    THEN [seekers |-> [S EXCEPT ![it.id].target.x = it.target.x],
          error |-> "InvalidAiOutputError"]
    ELSE LET m == magnet_set(S[it.id].magnet, it.magnet)
         IN  [seekers |-> [S EXCEPT ![it.id].target = it.target,
                                    ![it.id].magnet = m.strength],
              error |-> IF m.error = "none" THEN "none" ELSE "InvalidAiOutputError"]

RECURSIVE apply_items(_, _, _, _)
\* the loop of process_ai_output: own_seeker.target = ..., own_seeker.magnet.strength = ...
apply_items(p, S, items, k) ==
    IF k > Len(items) THEN [seekers |-> S, error |-> "none"]
    ELSE LET r == apply_item(p, S, items[k])
         IN  IF r.error # "none" THEN r ELSE apply_items(p, r.seekers, items, k + 1)

\* a process_ai_output without the length test: it applies what it is given
process_ai_output_unchecked(p, S, out) ==
    IF out.kind # "list" THEN [seekers |-> S, error |-> "InvalidAiOutputError"]
    ELSE apply_items(p, S, out.items, 1)

\* LocalPlayer.process_ai_output(ai_output), called from poll_ai inside its try (an
\* output of kind "raise" is the InvalidAiOutputError of call_ai): the seekers after
\* the call and the exception that left it
process_ai_output(p, S, out) ==
    IF out.kind # "list" THEN [seekers |-> S, error |-> "InvalidAiOutputError"]
    ELSE IF Len(out.items) # Cardinality(SeekersOf(S, p))
    THEN [seekers |-> S, error |-> "InvalidAiOutputError"]
    ELSE apply_items(p, S, out.items, 1)

----------------------------------------------------------------------------
(* SeekersGame: construction and start() *)

\* Seeker.from_config / Seeker.__init__
new_seeker(owner, position) ==
    [owner |-> owner, position |-> position, velocity |-> ZeroVec, target |-> position,
     magnet |-> 0, disabled_counter |-> 0,
     radius |-> config.seeker_radius, mass |-> config.seeker_mass]

\* Goal.from_config / Goal.__init__
new_goal(position) ==
    [position |-> position, velocity |-> ZeroVec, owner |-> NoOwner, time_owned |-> 0,
     radius |-> config.goal_radius, mass |-> config.goal_mass]

\* Where start() may put the seekers and goals (world.random_position() is uniform over
\* the world): a few placements that make the entities meet, score and stay apart.
Layouts ==
    { [seekers |-> << Vec(0, 0), Vec(7, 5), Vec(0, 3), Vec(7, 1) >>,
       goals |-> << Vec(4, 2), Vec(1, 5) >>],
      [seekers |-> << Vec(3, 4), Vec(5, 4), Vec(1, 1), Vec(6, 6) >>,
       goals |-> << Vec(4, 6), Vec(4, 4) >>],
      [seekers |-> << Vec(2, 2), Vec(3, 2), Vec(5, 2), Vec(6, 0) >>,
       goals |-> << Vec(4, 2), Vec(6, 1) >>] }

\* the world as a record, for the operators of game_logic
World == [players |-> players, seekers |-> seekers, goals |-> goals, rng |-> rng,
          scored |-> << >>]

\* the state after SeekersGame.__init__ and start() up to the call of mainloop, which
\* seeds the generator again (random.seed(global_seed))
InitState(c, kinds, ais, S, G, at) ==
    /\ cfg = c
    /\ players = [p \in PlayerIds |-> [kind |-> kinds[p], ai |-> ais[p], score |-> 0]]
    /\ seekers = S
    /\ goals = G
    /\ rng = c.global_seed
    /\ ticks = 0
    /\ pc = at
    /\ running = TRUE
    /\ frame_i = 0
    /\ poll_idx = 0
    /\ ai_output = NoOutput
    /\ ai_players = [p \in PlayerIds |-> << >>]
    /\ was_updated = [p \in PlayerIds |-> FALSE]
    /\ next_game_tick_event = FALSE
    /\ current_status = NoStatus
    /\ handler = [p \in PlayerIds |-> [pc |-> "none"]]
    /\ client = [p \in PlayerIds |-> [last_gametime |-> -1, mirror |-> NoStatus,
                                      closed |-> FALSE]]
    /\ hist = [init |-> [players |-> players, seekers |-> seekers, goals |-> goals,
                         rng |-> rng, scored |-> << >>],
               scored |-> << >>, quit |-> FALSE,
               moved |-> [i \in GoalIdx |-> FALSE],
               first_score |-> [i \in GoalIdx |-> 0],
               aborted |-> FALSE,
               stale |-> [p \in PlayerIds |-> FALSE],
               passed_stale |-> FALSE,
               error |-> "none",
               answered |-> [p \in PlayerIds |-> FALSE]]

InitWith(c, kinds, ais, layout) ==
    InitState(c, kinds, ais,
              [s \in SeekerIds(c) |-> new_seeker(OwnerOf(s, c), layout.seekers[s])],
              [i \in GoalIdx |-> new_goal(layout.goals[i])], "events")

----------------------------------------------------------------------------
(* SeekersGame.mainloop: the game thread *)

game_vars == <<players, seekers, goals, rng, ticks>>
grpc_vars == <<was_updated, next_game_tick_event, current_status, handler, client>>

\* for e in pygame.event.get(): if e.type == pygame.QUIT: running = False
\* then the for loop over range(global_speed) starts
HandleEvents ==
    /\ pc = "events"
    /\ \E quit \in BOOLEAN :
          /\ running' = (running /\ ~quit)
          /\ hist' = [hist EXCEPT !.quit = @ \/ quit]
    /\ frame_i' = 0
    /\ pc' = "loop"
    /\ UNCHANGED <<cfg, game_vars, poll_idx, ai_output, ai_players, grpc_vars>>

\* a playtime test that looks at the tick count only at the start of a frame
playtime_check_per_frame(c, t) ==
    IF c.global_playtime # 0 /\ t >= c.global_playtime /\ t % c.global_speed = 0
    THEN IF c.dont_kill THEN "continue" ELSE "break"
    ELSE "go on"

\* a playtime test that lets the tick with number global_playtime through
playtime_check_late(c, t) ==
    IF c.global_playtime # 0 /\ t > c.global_playtime
    THEN IF c.dont_kill THEN "continue" ELSE "break"
    ELSE "go on"

\* the playtime test of mainloop: "continue", "break" or "go on" with the polls
playtime_check(c, t) ==
    IF c.global_playtime # 0 /\ t >= c.global_playtime
    THEN IF c.dont_kill THEN "continue" ELSE "break"
    ELSE "go on"

\* the head of `for _ in range(global_speed)`; without a gRPC server the playtime test
\* follows at once
LoopHead ==
    /\ pc = "loop"
    /\ IF frame_i < cfg.global_speed
       THEN /\ frame_i' = frame_i + 1
            /\ IF cfg.grpc
               THEN pc' = "new_tick" /\ UNCHANGED <<running, poll_idx>>
               ELSE LET r == playtime_check(cfg, ticks)
                    IN  /\ pc' = CASE r = "continue" -> "loop"
                                   [] r = "break" -> "draw"
                                   [] OTHER -> "poll"
                        /\ running' = IF r = "break" THEN FALSE ELSE running
                        /\ poll_idx' = IF r = "go on" THEN 1 ELSE poll_idx
       ELSE /\ pc' = "draw"
            /\ UNCHANGED <<frame_i, running, poll_idx>>
    /\ UNCHANGED <<cfg, game_vars, ai_output, ai_players, grpc_vars, hist>>

\* LocalPlayer.poll_ai, first half: get_ai_input (update_ai_state) and call_ai
CallAi ==
    /\ pc = "poll"
    /\ poll_idx <= config.global_players
    /\ players[poll_idx].kind = "local"
    /\ players[poll_idx].ai \in Ais
    /\ LET in == local_ai_input(poll_idx, players, seekers, goals, ai_players[poll_idx], ticks)
       IN  /\ ai_output' = decide(players[poll_idx].ai, in)
           /\ ai_players' = [ai_players EXCEPT ![poll_idx] = in.scores]
    /\ pc' = "process"
    /\ UNCHANGED <<cfg, game_vars, running, frame_i, poll_idx, grpc_vars, hist>>

\* LocalPlayer.poll_ai, second half: process_ai_output inside try / except
\* InvalidAiOutputError, after which the poll loop goes to the next player; any other
\* exception leaves poll_ai, mainloop and start()
ProcessAiOutput ==
    /\ pc = "process"
    /\ LET r == process_ai_output(poll_idx, seekers, ai_output)
       IN  /\ seekers' = r.seekers
           /\ hist' = [hist EXCEPT !.error = r.error]
           /\ IF r.error \in {"none", "InvalidAiOutputError"}
              THEN pc' = "poll" /\ poll_idx' = poll_idx + 1
              ELSE /\ pc' = IF cfg.grpc THEN "stop" ELSE "crashed"
                   /\ UNCHANGED poll_idx
    /\ ai_output' = NoOutput
    /\ UNCHANGED <<cfg, players, goals, rng, ticks, running, frame_i, ai_players,
                   grpc_vars>>

\* the poll loop is through: game_logic.tick is called
PollsDone ==
    /\ pc = "poll"
    /\ poll_idx > config.global_players
    /\ pc' = "tick"
    /\ UNCHANGED <<cfg, game_vars, running, frame_i, poll_idx, ai_output, ai_players,
                   grpc_vars, hist>>

\* game_logic.tick, lines 21-26: the seekers move and recover
TickSeekers ==
    /\ pc = "tick"
    /\ seekers' = tick_seekers(World).seekers
    /\ pc' = "tick_rest"
    /\ hist' = [hist EXCEPT !.stale = was_updated, !.passed_stale = FALSE]
    /\ UNCHANGED <<cfg, players, goals, rng, ticks, running, frame_i, poll_idx, ai_output,
                   ai_players, grpc_vars>>

\* game_logic.tick, lines 28-61: goals, collisions, scoring; then self.ticks += 1
TickRest ==
    /\ pc = "tick_rest"
    /\ LET W == tick_rest(World, cfg)
           moved == tick_physics(World, cfg).goals
           scored_now == { W.scored[k].goal : k \in 1 .. Len(W.scored) }
       IN  /\ players' = W.players
           /\ seekers' = W.seekers
           /\ goals' = W.goals
           /\ rng' = W.rng
           /\ hist' = [hist EXCEPT
                  !.scored = W.scored,
                  !.moved = [i \in GoalIdx |->
                               @[i] \/ (hist.first_score[i] = 0
                                         /\ moved[i].position # goals[i].position)],
                  !.first_score = [i \in GoalIdx |->
                               IF @[i] = 0 /\ i \in scored_now THEN ticks + 1 ELSE @[i]]]
    /\ ticks' = ticks + 1
    /\ pc' = "loop"
    /\ UNCHANGED <<cfg, running, frame_i, poll_idx, ai_output, ai_players, grpc_vars>>

\* renderer.draw and clock.tick; the while loop ends when running is False, and
\* start() then stops the gRPC server if there is one
Draw ==
    /\ pc = "draw"
    /\ pc' = IF running THEN "events" ELSE IF cfg.grpc THEN "stop" ELSE "done"
    /\ UNCHANGED <<cfg, game_vars, running, frame_i, poll_idx, ai_output, ai_players,
                   grpc_vars, hist>>

NextGame ==
    \/ HandleEvents
    \/ LoopHead
    \/ CallAi
    \/ ProcessAiOutput
    \/ PollsDone
    \/ TickSeekers
    \/ TickRest
    \/ Draw

\* the game options of the local games
GameConfigs ==
    [ global_speed : 1 .. MaxSpeed, global_playtime : 1 .. MaxPlaytime,
      global_seed : {1}, dont_kill : BOOLEAN, global_wait_for_players : {TRUE},
      grpc : {FALSE}, global_seekers : {2}, goal_scoring_time : {2},
      seeker_disabled_time : {2} ]

InitGame ==
    \E c \in GameConfigs, layout \in Layouts, ais \in [PlayerIds -> Ais] :
        /\ ais[2] \in {"chase", "mimic", "wary"}
        /\ ais[1] \in {"flaky", "forgetful", "short", "foreign", "partial", "repeat"} =>
              ais[2] = "chase"
        /\ InitWith(c, [p \in PlayerIds |-> "local"], ais, layout)

\* games of local players
SpecGame == InitGame /\ [][NextGame]_vars

----------------------------------------------------------------------------
(* Properties of the local game *)

RECURSIVE poll_from(_, _, _, _)
\* for player_ in self.players.values(): player_.poll_ai(...), all players local
poll_from(W, p, frozen, time) ==
    IF p > config.global_players THEN W
    ELSE LET in == local_ai_input(p, W.players, W.seekers, W.goals, frozen, time)
             S == process_ai_output(p, W.seekers, decide(W.players[p].ai, in)).seekers
         IN  poll_from([W EXCEPT !.seekers = S], p + 1, frozen, time)

RECURSIVE state_at(_, _, _)
\* the world after n rounds of "poll all players, tick" from W0; the speed is no input
state_at(W0, n, c) ==
    IF n = 0 THEN W0
    ELSE LET W == state_at(W0, n - 1, c)
             frozen == [q \in PlayerIds |-> W0.players[q].score]
         IN  [tick(poll_from(W, 1, frozen, n - 1), c) EXCEPT !.scored = << >>]

\* what tick() reads of the config: the speed, the playtime and the flags are not in it
physics_of(c) ==
    [goal_scoring_time |-> c.goal_scoring_time, seeker_disabled_time |-> c.seeker_disabled_time]

\* C1: whatever global_speed is, the world at the head of the loop after n ticks is the
\* world after n rounds of poll-all / tick from the start (a function of the start and
\* of n alone, so two speeds agree at every tick number), and a game that ends by its
\* playtime ends after exactly global_playtime ticks with the scores of that round.
C1_SpeedConsistency ==
    /\ pc \in {"loop", "done"} =>
          World = state_at(hist.init, ticks, physics_of(cfg))
    /\ (pc = "done" /\ ~hist.quit) =>
          /\ ticks = cfg.global_playtime
          /\ players = state_at(hist.init, cfg.global_playtime, physics_of(cfg)).players

\* a game at speed 2 that ended by its playtime of 3 ticks, with a point scored
C1_Witness ==
    /\ pc = "done" /\ ~hist.quit
    /\ cfg.global_speed = 2 /\ cfg.global_playtime = 3 /\ ticks = 3
    /\ \E p \in PlayerIds : players[p].score > 0

\* C32: the input of the decision function of the player polled in tick t shows the
\* seekers of the other players with the target and the magnet they had at the end of
\* tick t-1, whichever players were polled before in the same tick.
C32_InputIndependentOfSameTickCommands ==
    [][ (pc = "poll" /\ pc' = "process") =>
          LET before == state_at(hist.init, ticks, physics_of(cfg)).seekers
              in == local_ai_input(poll_idx, players, seekers, goals,
                                   ai_players[poll_idx], ticks)
          IN  \A s \in other_ids(in) :
                  /\ in.seekers[s].target = before[s].target
                  /\ in.seekers[s].magnet = before[s].magnet ]_vars

\* C34: in a tick that a seeker begins disabled (the ticks t+1 .. t+D after a collision
\* in tick t) it gets no thrust, only friction acts on its velocity, and it adds no
\* magnetic force to any goal.
C34_DisabledNoThrustNoForce ==
    [][ (pc = "tick" /\ pc' = "tick_rest") =>
          \A s \in DOMAIN seekers :
              is_disabled(seekers[s]) =>
                  /\ seekers'[s].velocity
                        = apply_friction(seekers[s].velocity, config.seeker_friction)
                  /\ \A i \in GoalIdx :
                        magnetic_force(seekers'[s], goals[i].position) = ZeroVec ]_vars

\* the position lies in [0, width) x [0, height)
in_world(pos) ==
    /\ 0 <= pos.x /\ pos.x < config.map_width
    /\ 0 <= pos.y /\ pos.y < config.map_height

\* C35: after every complete tick (movement, collisions, scoring with respawn) the
\* position of every seeker and of every goal lies in [0, width) x [0, height).
C35_PositionsInWorldAfterTick ==
    (pc = "loop" /\ ticks > 0) =>
        /\ \A s \in DOMAIN seekers : in_world(seekers[s].position)
        /\ \A i \in GoalIdx : in_world(goals[i].position)

\* C36: process_ai_output accepts an output only if it is a list whose seekers have
\* exactly the ids of the player's own seekers, each once; any other list, one of the
\* right length that repeats a seeker and leaves one out included, is refused.
C36_AcceptsOnlyExactIds ==
    [][ (pc = "process" /\ pc' # "process" /\ hist'.error = "none") =>
          /\ ai_output.kind = "list"
          /\ Len(ai_output.items) = Cardinality(SeekersOf(seekers, poll_idx))
          /\ { ai_output.items[k].id : k \in 1 .. Len(ai_output.items) }
                = SeekersOf(seekers, poll_idx) ]_vars

\* C39: at every poll of a LocalPlayer the view handed to the decision function equals
\* the game in every mutable field it shows: the seekers, the owner and counter of the
\* goals, and the score of every player.
C39_ViewEqualsGameAtEveryPoll ==
    [][ (pc = "poll" /\ pc' = "process") =>
          LET in == local_ai_input(poll_idx, players, seekers, goals,
                                   ai_players[poll_idx], ticks)
          IN  /\ in.seekers = seekers
              /\ \A i \in GoalIdx :
                    /\ in.goals[i].position = goals[i].position
                    /\ in.goals[i].owner = goals[i].owner
                    /\ in.goals[i].time_owned = goals[i].time_owned
              /\ \A q \in PlayerIds : in.scores[q] = players[q].score ]_vars

\* an ai_output that poll_ai must reject: call_ai raised, the value is no list, or the
\* list has not one entry per owned seeker
bad_output(out, p) ==
    \/ out.kind \in {"raise", "nonlist"}
    \/ out.kind = "list" /\ Len(out.items) # Cardinality(SeekersOf(seekers, p))

\* C10: when the decision function raised, returned no list or a list of the wrong
\* length, poll_ai returns (the poll loop goes on with the next player) and no seeker's
\* target or magnet (nor anything else of a seeker) has changed.
C10_BadOutputLeavesSeekers ==
    [][ (pc = "process" /\ bad_output(ai_output, poll_idx)) =>
            (seekers' = seekers /\ pc' = "poll" /\ poll_idx' = poll_idx + 1) ]_vars

\* a list of the wrong length is being processed, and its entry asks for a target the
\* seeker does not have
C10_Witness ==
    /\ pc = "process"
    /\ bad_output(ai_output, poll_idx)
    /\ ai_output.kind = "list"
    /\ Len(ai_output.items) >= 1
    /\ ai_output.items[1].target # seekers[ai_output.items[1].id].target

\* the seekers of player p have the targets and magnets they had before the step
own_seekers_kept(p) ==
    \A s \in SeekersOf(seekers, p) :
        /\ seekers'[s].target = seekers[s].target
        /\ seekers'[s].magnet = seekers[s].magnet

\* a list of the right length with an element whose id is no seeker of player p
foreign_output(out, p) ==
    /\ out.kind = "list"
    /\ Len(out.items) = Cardinality(SeekersOf(seekers, p))
    /\ \E k \in 1 .. Len(out.items) : out.items[k].id \notin SeekersOf(seekers, p)

\* C11: when the decision function returns a list of the right length that contains a
\* seeker of another player, poll_ai returns normally (the poll loop goes on with the
\* next player) and the player's seekers keep their target and magnet.
C11_ForeignSeekerRejected ==
    [][ (pc = "process" /\ foreign_output(ai_output, poll_idx)) =>
            (pc' = "poll" /\ poll_idx' = poll_idx + 1 /\ own_seekers_kept(poll_idx)) ]_vars

\* C12: when process_ai_output raises InvalidAiOutputError for an element of the list,
\* none of the player's seekers has a changed target or magnet, the seekers of the
\* earlier elements included.
C12_RejectionAllOrNothing ==
    [][ (pc = "process" /\ ai_output.kind = "list"
         /\ process_ai_output(poll_idx, seekers, ai_output).error = "InvalidAiOutputError") =>
            own_seekers_kept(poll_idx) ]_vars

\* local games that end by themselves: dont_kill is off; the layout is the one where
\* the seekers and goals meet
InitGameFair ==
    \E c \in GameConfigs, layout \in Layouts, ais \in [PlayerIds -> Ais] :
        /\ ~c.dont_kill
        /\ layout.goals[2] = Vec(4, 4)
        /\ ais[2] \in {"chase", "mimic", "wary"}
        /\ ais[1] \in {"flaky", "forgetful", "short", "foreign", "partial", "repeat"} =>
              ais[2] = "chase"
        /\ InitWith(c, [p \in PlayerIds |-> "local"], ais, layout)

\* The game thread is scheduled as long as it has a step to take: weak fairness of
\* every step of mainloop.  TickRest is enabled exactly when pc = "tick_rest" and always
\* leaves that place, so its weak fairness is written as []<>(pc # "tick_rest").
SpecGameFair ==
    /\ InitGameFair /\ [][NextGame]_vars
    /\ WF_vars(HandleEvents) /\ WF_vars(LoopHead) /\ WF_vars(CallAi)
    /\ WF_vars(ProcessAiOutput) /\ WF_vars(PollsDone) /\ WF_vars(TickSeekers)
    /\ WF_vars(Draw)
    /\ []<>(pc # "tick_rest")

\* C18: with global_playtime > 0 and dont_kill false the loop ends if every poll
\* returns (a poll that raises something else than InvalidAiOutputError ends the game
\* at once); self.ticks never exceeds global_playtime; and when the loop has ended
\* without a QUIT event, self.ticks = global_playtime, whatever global_speed is.
C18_TerminatesAtPlaytime ==
    /\ [](ticks <= cfg.global_playtime)
    /\ [](pc = "done" /\ ~cfg.dont_kill /\ ~hist.quit => ticks = cfg.global_playtime)
    /\ <>(pc \in {"done", "crashed"})

\* a game at speed 3 has ended after the 2 ticks of its playtime, in its first frame
C18_Witness ==
    /\ pc = "done" /\ ~hist.quit /\ ~cfg.dont_kill
    /\ cfg.global_speed = 3 /\ cfg.global_playtime = 2 /\ ticks = 2

\* C18 as stated, for every way the loop ends: when mainloop has ended with dont_kill
\* false, self.ticks = global_playtime.
C18_ExactlyPlaytimeTicks ==
    (pc = "done" /\ ~cfg.dont_kill) => ticks = cfg.global_playtime

----------------------------------------------------------------------------
(* Games that exercise the scoring: goals in and around the camps *)

MaxScoringTime == 2

ScoringConfigs ==
    [ global_speed : {1}, global_playtime : {MaxScoringTime + 3},
      global_seed : {1, 2}, dont_kill : {FALSE}, global_wait_for_players : {TRUE},
      grpc : {FALSE}, global_seekers : {1}, goal_scoring_time : 0 .. MaxScoringTime,
      seeker_disabled_time : {2} ]

ScoringLayouts ==
    { [seekers |-> << s1, s2 >>, goals |-> << g1, g2 >>] :
        s1 \in {Vec(0, 0), Vec(4, 3)}, s2 \in {Vec(7, 4), Vec(4, 5)},
        g1 \in {Vec(4, 2), Vec(4, 6), Vec(1, 4), Vec(3, 1)}, g2 \in {Vec(4, 6), Vec(6, 4)} }

InitScoring ==
    \E c \in ScoringConfigs, layout \in ScoringLayouts,
       ais \in [PlayerIds -> {"idle", "chase", "wary"}] :
        InitWith(c, [p \in PlayerIds |-> "local"], ais, layout)

SpecScoring == InitScoring /\ [][NextGame]_vars

\* the camp that contains a position, if any (the camps do not overlap)
camp_owners_at(pos) == { p \in PlayerIds : contains(camps[p], pos) }

\* C6: the points of a tick go to the owner of the camp that contains the goal, one
\* per goal, and the goal is then unowned with time_owned 0; a goal in no camp earns
\* nobody a point.
C6_PointsOnlyForCampOwner ==
    /\ \A k \in 1 .. Len(hist.scored) :
          /\ hist.scored[k].player \in camp_owners_at(hist.scored[k].position)
          /\ \A j \in 1 .. Len(hist.scored) :
                hist.scored[j].goal = hist.scored[k].goal => j = k
    /\ pc = "loop" =>
          \A k \in 1 .. Len(hist.scored) :
              /\ goals[hist.scored[k].goal].owner = NoOwner
              /\ goals[hist.scored[k].goal].time_owned = 0

\* C7: time_owned stays within 0 .. scoring_time, and a counter that reached the
\* threshold has been reset by the end of that tick.
C7_TimeOwnedBounded ==
    \A i \in GoalIdx :
        /\ goals[i].time_owned >= 0
        /\ goals[i].time_owned <= cfg.goal_scoring_time
        /\ goals[i].time_owned = cfg.goal_scoring_time => goals[i].time_owned = 0

\* a goal scored in the tick just done, after its counter had run up to the threshold
C7_Witness ==
    /\ pc = "loop"
    /\ cfg.goal_scoring_time >= 2
    /\ \E k \in 1 .. Len(hist.scored) : goals[hist.scored[k].goal].time_owned = 0
    /\ \E i \in GoalIdx : goals[i].time_owned = cfg.goal_scoring_time - 1

\* C8: a goal that starts unowned inside a player's camp and is not moved earns that
\* player its first point in tick number scoring_time (scoring_time >= 1).
C8_PointAfterScoringTimeTicks ==
    \A i \in GoalIdx, p \in PlayerIds :
        ( /\ cfg.goal_scoring_time >= 1
          /\ contains(camps[p], hist.init.goals[i].position)
          /\ ~hist.moved[i]
          /\ pc = "loop"
          /\ ticks >= cfg.goal_scoring_time )
        => hist.first_score[i] = cfg.goal_scoring_time

\* the sum of all scores
RECURSIVE total_score(_, _)
total_score(P, n) == IF n = 0 THEN 0 ELSE P[n].score + total_score(P, n - 1)

\* C27: scores are never negative and never go down; in a tick the sum of the scores
\* grows by the number of goals scored in it, at most the number of goals; no other
\* step changes a score.
C27_ScoresCountGoals ==
    /\ [](\A p \in PlayerIds : players[p].score >= 0)
    /\ [][ \A p \in PlayerIds : players'[p].score >= players[p].score ]_vars
    /\ [][ pc = "tick_rest" =>
             LET scored_now == { hist'.scored[k].goal : k \in 1 .. Len(hist'.scored) }
             IN  /\ total_score(players', Len(players'))
                      = total_score(players, Len(players)) + Cardinality(scored_now)
                 /\ Cardinality(scored_now) <= Len(goals) ]_vars
    /\ [][ pc # "tick_rest" =>
             \A p \in PlayerIds : players'[p].score = players[p].score ]_vars

\* two goals were scored in one tick by a player who had a point already
C27_Witness ==
    /\ Len(hist.scored) = 2
    /\ \E p \in PlayerIds : players[p].score >= 3

\* what the claimed rule makes of the owner and counter of goal g, which lies at
\* g.position when the camps are gone through
camp_rule(g) ==
    LET owners == camp_owners_at(g.position)
    IN  IF owners = {} THEN [owner |-> g.owner, time_owned |-> g.time_owned]
        ELSE IF g.owner \in owners
        THEN [owner |-> g.owner, time_owned |-> g.time_owned + 1]
        ELSE [owner |-> Min(owners), time_owned |-> 0]

\* the step is the second half of a tick: goals, collisions and scoring
scoring_step == pc = "tick_rest" /\ pc' = "loop"

\* C33 (as stated): in a tick a goal that lies in no camp keeps owner and time_owned,
\* one in a camp of its owner has time_owned increased by exactly 1, and one in a camp
\* of another owner (or unowned) gets that camp's owner and time_owned 0.
C33_CampTickCases ==
    [][ scoring_step =>
          \A i \in GoalIdx :
              LET r == camp_rule(tick_physics(World, cfg).goals[i])
              IN  /\ goals'[i].owner = r.owner
                  /\ goals'[i].time_owned = r.time_owned ]_vars

\* C33 (amended): the three cases hold in every tick in which the counter stays below
\* the scoring time; in a tick in which it reaches the scoring time the goal is scored
\* and is unowned with time_owned 0 at the end of the tick.
C33_CampTickCasesUnlessScored ==
    [][ scoring_step =>
          \A i \in GoalIdx :
              LET r == camp_rule(tick_physics(World, cfg).goals[i])
              IN  IF r.time_owned >= cfg.goal_scoring_time
                  THEN goals'[i].owner = NoOwner /\ goals'[i].time_owned = 0
                  ELSE /\ goals'[i].owner = r.owner
                       /\ goals'[i].time_owned = r.time_owned ]_vars

\* after a tick, a goal rests in the camp of its owner with its counter at 1, so the
\* counter was 0 and went up by one in this tick
C33_Witness ==
    /\ pc = "loop" /\ ticks >= 2
    /\ cfg.goal_scoring_time = 2
    /\ \E i \in GoalIdx :
          /\ goals[i].owner # NoOwner
          /\ goals[i].time_owned = 1
          /\ goals[i].owner \in camp_owners_at(goals[i].position)

----------------------------------------------------------------------------
(* Seeker.collision on two seekers in any state a game can bring them to *)

MaxDisabledTime == 2

CollisionConfigs ==
    [ global_speed : {1}, global_playtime : {1}, global_seed : {1}, dont_kill : {FALSE},
      global_wait_for_players : {TRUE}, grpc : {FALSE}, global_seekers : {1},
      goal_scoring_time : {2}, seeker_disabled_time : 1 .. MaxDisabledTime ]

\* a seeker somewhere in a game: any magnet, any disabled counter the game can leave
SeekerStates(owner, c, positions, velocities) ==
    { [new_seeker(owner, pos) EXCEPT !.magnet = m, !.disabled_counter = d, !.velocity = v] :
        pos \in positions, v \in velocities, m \in MagnetStrengths,
        d \in 0 .. c.seeker_disabled_time }

InitCollision ==
    \E c \in CollisionConfigs :
        \E a \in SeekerStates(1, c, {Vec(3, 3)}, {ZeroVec, Vec(1, 0)}),
           b \in SeekerStates(2, c, {Vec(4, 3), Vec(3, 4), Vec(3, 3)}, {ZeroVec}) :
            InitState(c, [p \in PlayerIds |-> "local"], [p \in PlayerIds |-> "idle"],
                      << a, b >>, [i \in GoalIdx |-> new_goal(Vec(6 + i, 7))], "collide")

\* seeker.collision(other, world), called by tick for a pair of seekers that touch
Collide ==
    /\ pc = "collide"
    /\ \E a \in DOMAIN seekers, b \in DOMAIN seekers :
          /\ a # b
          /\ LET r == seeker_collision(seekers[a], seekers[b], cfg)
             IN  seekers' = [seekers EXCEPT ![a] = r[1], ![b] = r[2]]
    /\ pc' = "collided"
    /\ UNCHANGED <<cfg, players, goals, rng, ticks, running, frame_i, poll_idx, ai_output,
                   ai_players, hist>>
    /\ UNCHANGED grpc_vars

SpecCollision == InitCollision /\ [][Collide]_vars

\* C9: after Seeker.collision with disabled_time > 0, both seekers are disabled when
\* neither magnet was effective; otherwise exactly the seekers whose magnet was
\* effective are, and the other keeps its disabled_counter.
C9_CollisionDisables ==
    pc = "collided" =>
        LET before == hist.init.seekers
            neither == \A s \in DOMAIN before : ~magnet_effective(before[s])
        IN  \A s \in DOMAIN seekers :
                IF neither \/ magnet_effective(before[s])
                THEN seekers[s].disabled_counter = cfg.seeker_disabled_time
                ELSE seekers[s].disabled_counter = before[s].disabled_counter

\* one effective magnet met a seeker whose counter was running: only the first is reset
C9_Witness ==
    /\ pc = "collided"
    /\ magnet_effective(hist.init.seekers[1])
    /\ hist.init.seekers[2].disabled_counter = 1
    /\ cfg.seeker_disabled_time = 2
    /\ seekers[1].disabled_counter = 2
    /\ seekers[2].disabled_counter = 1

----------------------------------------------------------------------------
(* The gRPC server: GrpcSeekersServicer, GrpcClientPlayer, and GrpcSeekersClient *)

\* seeker_to_grpc / goal_to_grpc / player_to_grpc
seeker_to_grpc(s) ==
    [owner |-> s.owner, position |-> s.position, velocity |-> s.velocity,
     target |-> s.target, magnet |-> s.magnet, disable_counter |-> s.disabled_counter]

goal_to_grpc(g) ==
    [position |-> g.position, velocity |-> g.velocity, camp_id |-> g.owner,
     time_owned |-> g.time_owned]

\* a player's camp has the player's id as its id in this model
player_to_grpc(P, S, p) ==
    [score |-> P[p].score, seeker_ids |-> SeekersOf(S, p), camp_id |-> p]

\* GrpcSeekersServicer.generate_status
generate_status(P, S, G, t) ==
    [players |-> [p \in DOMAIN P |-> player_to_grpc(P, S, p)],
     seekers |-> [s \in DOMAIN S |-> seeker_to_grpc(S[s])],
     goals |-> [i \in 1 .. Len(G) |-> goal_to_grpc(G[i])],
     camps |-> DOMAIN P,
     passed_playtime |-> t]

\* seeker_to_seekers and update_existing_state: the counter of the reply is stored as
\* `disable_counter`, an attribute nothing reads; disabled_counter keeps the 0 of
\* Seeker.__init__
seeker_to_seekers(r) ==
    [new_seeker(r.owner, r.position) EXCEPT
        !.velocity = r.velocity, !.target = r.target, !.magnet = r.magnet]

\* goal_to_seekers: a camp_id that is no key of camps gives no owner
goal_to_seekers(r, camp_ids) ==
    [new_goal(r.position) EXCEPT
        !.velocity = r.velocity,
        !.owner = IF r.camp_id \in camp_ids THEN r.camp_id ELSE NoOwner,
        !.time_owned = r.time_owned]

\* the ids of a reply list or of a mirror that a loop visits before it reaches id
ids_before(ids, id) == { i \in ids : i < id }

\* the ids of a response that a mirror dict does not hold
unknown_ids(reply, dict) == DOMAIN reply \ DOMAIN dict

\* GrpcSeekersClient.update_existing_state(response): the three loops run over the
\* response; an id of the response that the mirror lacks raises
\* CouldNotUpdateExistingStateResponseInvalid, an id of the mirror that the response
\* lacks is never looked at. self.camps[new_goal.camp_id] raises KeyError for a camp
\* the mirror does not know, after the goal's other attributes are written. The goals
\* visited before a raise keep their new values.
update_existing_state(cl, response) ==
    IF cl.last_gametime = -1
    THEN [mirror |-> cl.mirror, error |-> "CouldNotUpdateExistingStateError"]
    ELSE LET m == cl.mirror
             bad_seekers == unknown_ids(response.seekers, m.seekers)
             bad_players == unknown_ids(response.players, m.scores)
             bad_goals == unknown_ids(response.goals, m.goals)
             bad_camps == { g \in DOMAIN response.goals \ bad_goals :
                              /\ response.goals[g].camp_id # NoOwner
                              /\ response.goals[g].camp_id \notin m.camps }
             stop == bad_goals \cup bad_camps
             seen_goals == IF stop = {} THEN DOMAIN response.goals
                           ELSE ids_before(DOMAIN response.goals, Min(stop))
             S == [s \in DOMAIN m.seekers |->
                     IF s \in DOMAIN response.seekers
                     THEN [m.seekers[s] EXCEPT
                              !.position = response.seekers[s].position,
                              !.velocity = response.seekers[s].velocity,
                              !.target = response.seekers[s].target,
                              !.magnet = response.seekers[s].magnet]
                     ELSE m.seekers[s]]
             P == [p \in DOMAIN m.scores |->
                     IF p \in DOMAIN response.players
                     THEN response.players[p].score ELSE m.scores[p]]
             G == [g \in DOMAIN m.goals |->
                     IF g \in seen_goals
                     THEN [m.goals[g] EXCEPT
                              !.position = response.goals[g].position,
                              !.velocity = response.goals[g].velocity,
                              !.time_owned = response.goals[g].time_owned,
                              !.owner = response.goals[g].camp_id]
                     ELSE IF stop # {} /\ g = Min(stop) /\ g \in bad_camps
                     THEN [m.goals[g] EXCEPT
                              !.position = response.goals[g].position,
                              !.velocity = response.goals[g].velocity,
                              !.time_owned = response.goals[g].time_owned]
                     ELSE m.goals[g]]
         IN  IF bad_seekers # {} \/ bad_players # {}
             THEN [mirror |-> m, error |-> "CouldNotUpdateExistingStateResponseInvalid"]
             ELSE IF stop # {} /\ Min(stop) \in bad_goals
             THEN [mirror |-> [m EXCEPT !.goals = G],
                   error |-> "CouldNotUpdateExistingStateResponseInvalid"]
             ELSE IF stop # {}
             THEN [mirror |-> [m EXCEPT !.scores = P, !.seekers = S, !.goals = G],
                   error |-> "KeyError"]
             ELSE [mirror |-> [m EXCEPT !.scores = P, !.seekers = S, !.goals = G],
                   error |-> "none"]

\* GrpcSeekersClient.create_new_state(response): self.seekers, self.players and
\* self.camps are emptied and refilled player by player. seeker_replies[seeker_id]
\* raises KeyError for an id the response has no seeker for, and nothing catches it;
\* a camp_id the response has no camp for raises GrpcSeekersClientError after the
\* player is stored. On either the players before that one stay, and self.goals
\* keeps what it had.
create_new_state(cl, response) ==
    LET dangling(p) == response.players[p].seeker_ids \ DOMAIN response.seekers
        bad_seekers == { p \in DOMAIN response.players : dangling(p) # {} }
        bad_camps == { p \in DOMAIN response.players :
                         response.players[p].camp_id \notin response.camps }
        bad == bad_seekers \cup bad_camps
        key_error == bad # {} /\ Min(bad) \in bad_seekers
        before == IF bad = {} THEN DOMAIN response.players
                  ELSE ids_before(DOMAIN response.players, Min(bad))
        done == IF bad = {} \/ key_error THEN before ELSE before \cup {Min(bad)}
        part == IF key_error
                THEN ids_before(response.players[Min(bad)].seeker_ids,
                                Min(dangling(Min(bad))))
                ELSE {}
        owner_of(s) == IF \E p \in done : s \in response.players[p].seeker_ids
                       THEN Max({ p \in done : s \in response.players[p].seeker_ids })
                       ELSE Min(bad)
        made == UNION { response.players[p].seeker_ids : p \in done } \cup part
        S == [s \in made |->
                [seeker_to_seekers(response.seekers[s]) EXCEPT !.owner = owner_of(s)]]
        P == [p \in done |-> response.players[p].score]
        C == { response.players[p].camp_id : p \in before }
        G == [g \in DOMAIN response.goals |-> goal_to_seekers(response.goals[g], C)]
        old_goals == IF cl.mirror = NoStatus THEN << >> ELSE cl.mirror.goals
    IN  IF bad = {}
        THEN [mirror |-> [scores |-> P, seekers |-> S, goals |-> G, camps |-> C],
              error |-> "none"]
        ELSE [mirror |-> [scores |-> P, seekers |-> S, goals |-> old_goals,
                          camps |-> C],
              error |-> IF key_error THEN "KeyError" ELSE "GrpcSeekersClientError"]

\* GrpcSeekersClient.update_state(response): update_existing_state, create_new_state
\* when it raised one of the two CouldNotUpdate errors, then last_gametime; any other
\* exception leaves before that assignment
update_state(cl, response) ==
    LET e == update_existing_state(cl, response)
        n == IF e.error \in {"none", "KeyError"} THEN e
             ELSE create_new_state([cl EXCEPT !.mirror = e.mirror], response)
    IN  [client |-> [cl EXCEPT
                        !.mirror = n.mirror,
                        !.last_gametime = IF n.error = "none"
                                          THEN response.passed_playtime ELSE @],
         error |-> n.error]

\* run with the clause for GrpcSeekersClientError ahead of the one for
\* ServerUnavailableError, its subclass
run_except_reordered(careful_mode, error) ==
    CASE error = "none" -> "continue"
      [] error \in {"GrpcSeekersClientError", "ServerUnavailableError",
                    "CouldNotUpdateExistingStateError",
                    "CouldNotUpdateExistingStateResponseInvalid"} ->
            IF careful_mode THEN "raised" ELSE "continue"
      [] error \in {"UNAVAILABLE", "CANCELLED"} -> "returned"
      [] error = "UNKNOWN" -> IF careful_mode THEN "raised" ELSE "continue"
      [] error = "AssertionError" -> IF careful_mode THEN "raised" ELSE "continue"
      [] OTHER -> "raised"

\* the except clauses of GrpcSeekersClient.run for what tick() raised: the loop goes
\* on ("continue"), run returns ("returned"), or the exception leaves run ("raised").
\* An RPC error is named by its status code.
run_except(careful_mode, error) ==
    CASE error = "none" -> "continue"
      [] error = "ServerUnavailableError" -> "returned"
      [] error \in {"GrpcSeekersClientError", "CouldNotUpdateExistingStateError",
                    "CouldNotUpdateExistingStateResponseInvalid"} ->
            IF careful_mode THEN "raised" ELSE "continue"
      [] error \in {"UNAVAILABLE", "CANCELLED"} -> "returned"
      [] error = "UNKNOWN" -> IF careful_mode THEN "raised" ELSE "continue"
      [] error = "AssertionError" -> IF careful_mode THEN "raised" ELSE "continue"
      [] OTHER -> "raised"

\* one pass of the loop of GrpcSeekersClient.run, r being what tick() left: the
\* client goes on unless an except clause breaks or raises
run_tick(careful_mode, r) ==
    [r.client EXCEPT !.closed = @ \/ run_except(careful_mode, r.error) # "continue"]

\* GrpcSeekersClient.get_ai_input
grpc_ai_input(p, cl) ==
    [me |-> p,
     seekers |-> cl.mirror.seekers,
     goals |-> [i \in 1 .. Len(cl.mirror.goals) |->
                  [position |-> cl.mirror.goals[i].position,
                   owner |-> cl.mirror.goals[i].owner,
                   time_owned |-> cl.mirror.goals[i].time_owned]],
     scores |-> cl.mirror.scores,
     time |-> cl.last_gametime]

\* between start_game() and server.stop(None)
server_running == pc # "done"

\* servicer.new_tick, first statement: self.generate_status()
NewTickGenerate ==
    /\ pc = "new_tick"
    /\ current_status' = generate_status(players, seekers, goals, ticks)
    /\ pc' = "new_tick_set"
    /\ UNCHANGED <<cfg, game_vars, running, frame_i, poll_idx, ai_output, ai_players,
                   was_updated, next_game_tick_event, handler, client, hist>>

\* next_game_tick_event.set(): the flag goes up and every thread waiting on it wakes
NewTickSet ==
    /\ pc = "new_tick_set"
    /\ next_game_tick_event' = TRUE
    /\ handler' = [p \in PlayerIds |->
                     IF handler[p].pc = "blocked" THEN [handler[p] EXCEPT !.pc = "respond"]
                     ELSE handler[p]]
    /\ pc' = "new_tick_clear"
    /\ UNCHANGED <<cfg, game_vars, running, frame_i, poll_idx, ai_output, ai_players,
                   was_updated, current_status, client, hist>>

\* next_game_tick_event.clear(), and then the playtime test of mainloop
NewTickClear ==
    /\ pc = "new_tick_clear"
    /\ next_game_tick_event' = FALSE
    /\ LET r == playtime_check(cfg, ticks)
       IN  /\ pc' = CASE r = "continue" -> "loop"
                      [] r = "break" -> "draw"
                      [] OTHER -> "poll"
           /\ running' = IF r = "break" THEN FALSE ELSE running
           /\ poll_idx' = IF r = "go on" THEN 1 ELSE poll_idx
    /\ UNCHANGED <<cfg, game_vars, frame_i, ai_output, ai_players, was_updated,
                   current_status, handler, client, hist>>

\* GrpcClientPlayer.poll_ai with wait: was_updated.wait(timeout) returns True
WaitForUpdate ==
    /\ pc = "poll"
    /\ poll_idx <= config.global_players
    /\ players[poll_idx].kind = "grpc"
    /\ cfg.global_wait_for_players
    /\ was_updated[poll_idx]
    /\ pc' = "poll_clear"
    /\ hist' = [hist EXCEPT !.passed_stale = @ \/ hist.stale[poll_idx]]
    /\ UNCHANGED <<cfg, game_vars, running, frame_i, poll_idx, ai_output, ai_players,
                   grpc_vars>>

\* GrpcClientPlayer.wait_for_update, last statement: self.was_updated.clear()
ClearUpdate ==
    /\ pc = "poll_clear"
    /\ was_updated' = [was_updated EXCEPT ![poll_idx] = FALSE]
    /\ poll_idx' = poll_idx + 1
    /\ pc' = "poll"
    /\ UNCHANGED <<cfg, game_vars, running, frame_i, ai_output, ai_players,
                   next_game_tick_event, current_status, handler, client, hist>>

\* was_updated.wait(timeout) returns False after 5 seconds: TimeoutError leaves
\* mainloop, and the finally of start() stops the server
WaitTimeout ==
    /\ pc = "poll"
    /\ poll_idx <= config.global_players
    /\ players[poll_idx].kind = "grpc"
    /\ cfg.global_wait_for_players
    /\ ~was_updated[poll_idx]
    /\ pc' = "stop"
    /\ running' = FALSE
    /\ hist' = [hist EXCEPT !.aborted = TRUE]
    /\ UNCHANGED <<cfg, game_vars, frame_i, poll_idx, ai_output, ai_players, grpc_vars>>

\* GrpcClientPlayer.poll_ai without wait: nothing to do
PollNoWait ==
    /\ pc = "poll"
    /\ poll_idx <= config.global_players
    /\ players[poll_idx].kind = "grpc"
    /\ ~cfg.global_wait_for_players
    /\ poll_idx' = poll_idx + 1
    /\ UNCHANGED <<cfg, game_vars, pc, running, frame_i, ai_output, ai_players,
                   grpc_vars, hist>>

\* GrpcSeekersServer.stop: server.stop(None) ends every call in flight, then
\* new_tick() wakes the handler threads that still wait
StopServer ==
    /\ pc = "stop"
    /\ current_status' = generate_status(players, seekers, goals, ticks)
    /\ handler' = [p \in PlayerIds |-> [pc |-> "none"]]
    /\ pc' = "done"
    /\ UNCHANGED <<cfg, game_vars, running, frame_i, poll_idx, ai_output, ai_players,
                   was_updated, next_game_tick_event, client, hist>>

handler_unchanged == <<cfg, game_vars, pc, running, frame_i, poll_idx, ai_output, ai_players>>

\* GrpcSeekersClient.tick, first call: send_commands_and_update_state([]). Command
\* gets no commands, does not wait, and answers with current_status, which it
\* generates if there is none yet.
ClientFirstTick(p) ==
    /\ server_running
    /\ players[p].kind = "grpc"
    /\ handler[p].pc = "none"
    /\ ~client[p].closed
    /\ client[p].last_gametime = -1
    /\ LET status == IF current_status = NoStatus
                     THEN generate_status(players, seekers, goals, ticks)
                     ELSE current_status
       IN  /\ current_status' = status
           /\ client' = [client EXCEPT ![p] = run_tick(FALSE, update_state(client[p], status))]
    /\ UNCHANGED handler_unchanged
    /\ UNCHANGED <<was_updated, next_game_tick_event, handler, hist>>

\* GrpcSeekersClient.tick: get_ai_input, decide_function, and the Command request is
\* on its way to a handler thread
ClientTick(p) ==
    /\ server_running
    /\ players[p].kind = "grpc"
    /\ handler[p].pc = "none"
    /\ ~client[p].closed
    /\ client[p].last_gametime # -1
    /\ LET out == decide(players[p].ai, grpc_ai_input(p, client[p]))
       IN  handler' = [handler EXCEPT ![p] = [pc |-> "target", commands |-> out.items,
                                              k |-> 1]]
    /\ UNCHANGED handler_unchanged
    /\ UNCHANGED <<was_updated, next_game_tick_event, current_status, client, hist>>

\* the client ends between two calls (its process stops, its channel is closed): it
\* sends nothing any more, and nothing tells the server
ClientClose(p) ==
    /\ pc \notin {"stop", "done"}
    /\ players[p].kind = "grpc"
    /\ handler[p].pc = "none"
    /\ ~client[p].closed
    /\ client' = [client EXCEPT ![p].closed = TRUE]
    /\ UNCHANGED handler_unchanged
    /\ UNCHANGED <<was_updated, next_game_tick_event, current_status, handler, hist>>

\* Command, in the loop over request.commands: seeker.target = ...
CommandTarget(p) ==
    /\ handler[p].pc = "target"
    /\ LET command == handler[p].commands[handler[p].k]
       IN  seekers' = [seekers EXCEPT ![command.id].target = command.target]
    /\ handler' = [handler EXCEPT ![p].pc = "magnet"]
    /\ UNCHANGED <<cfg, players, goals, rng, ticks, pc, running, frame_i, poll_idx,
                   ai_output, ai_players, was_updated, next_game_tick_event,
                   current_status, client, hist>>

\* Command, in the loop over request.commands: seeker.magnet.strength = ...
CommandMagnet(p) ==
    /\ handler[p].pc = "magnet"
    /\ LET command == handler[p].commands[handler[p].k]
       IN  seekers' = [seekers EXCEPT ![command.id].magnet = command.magnet]
    /\ handler' = [handler EXCEPT
                      ![p].pc = IF handler[p].k < Len(handler[p].commands)
                                THEN "target" ELSE "set",
                      ![p].k = @ + 1]
    /\ UNCHANGED <<cfg, players, goals, rng, ticks, pc, running, frame_i, poll_idx,
                   ai_output, ai_players, was_updated, next_game_tick_event,
                   current_status, client, hist>>

\* Command, after the loop: seeker.owner.was_updated.set()
CommandSet(p) ==
    /\ handler[p].pc = "set"
    /\ was_updated' = [was_updated EXCEPT ![p] = TRUE]
    /\ handler' = [handler EXCEPT ![p].pc = "wait"]
    /\ hist' = [hist EXCEPT !.stale[p] = FALSE]
    /\ UNCHANGED handler_unchanged
    /\ UNCHANGED <<next_game_tick_event, current_status, client>>

\* Command: self.next_game_tick_event.wait() returns at once if the flag is up, else
\* the thread sleeps until the next set()
CommandWait(p) ==
    /\ handler[p].pc = "wait"
    /\ handler' = [handler EXCEPT
                      ![p].pc = IF next_game_tick_event THEN "respond" ELSE "blocked"]
    /\ UNCHANGED handler_unchanged
    /\ UNCHANGED <<was_updated, next_game_tick_event, current_status, client, hist>>

\* Command returns a copy of current_status, and the client's update_state takes it
CommandRespond(p) ==
    /\ handler[p].pc = "respond"
    /\ handler' = [handler EXCEPT ![p] = [pc |-> "none"]]
    /\ client' = [client EXCEPT
                     ![p] = run_tick(FALSE, update_state(client[p], current_status))]
    /\ hist' = [hist EXCEPT !.answered[p] = TRUE]
    /\ UNCHANGED handler_unchanged
    /\ UNCHANGED <<was_updated, next_game_tick_event, current_status>>

NextGrpc ==
    \/ HandleEvents
    \/ LoopHead
    \/ NewTickGenerate
    \/ NewTickSet
    \/ NewTickClear
    \/ WaitForUpdate
    \/ ClearUpdate
    \/ WaitTimeout
    \/ PollNoWait
    \/ PollsDone
    \/ TickSeekers
    \/ TickRest
    \/ Draw
    \/ StopServer
    \/ \E p \in PlayerIds : ClientFirstTick(p)
    \/ \E p \in PlayerIds : ClientTick(p)
    \/ \E p \in PlayerIds : CommandTarget(p)
    \/ \E p \in PlayerIds : CommandMagnet(p)
    \/ \E p \in PlayerIds : CommandSet(p)
    \/ \E p \in PlayerIds : CommandWait(p)
    \/ \E p \in PlayerIds : CommandRespond(p)
    \/ \E p \in PlayerIds : ClientClose(p)

MaxGrpcPlaytime == 2

\* the game options of the gRPC games; without wait-for-players the game thread runs
\* free of the clients, and one tick of that is looked at
GrpcConfigs ==
    { c \in [ global_speed : {1}, global_playtime : 1 .. MaxGrpcPlaytime, global_seed : {1},
              dont_kill : {FALSE}, global_wait_for_players : BOOLEAN, grpc : {TRUE},
              global_seekers : {1}, goal_scoring_time : {1}, seeker_disabled_time : {2} ] :
        IF c.global_wait_for_players THEN c.global_playtime = MaxGrpcPlaytime
        ELSE c.global_playtime = 1 }

\* the decision functions the clients run: well-formed, one command per own seeker
GrpcAis == {"chase", "mimic", "wary"}

\* a placement by start() in which a goal lies in a camp and the seekers are near it
GrpcLayouts ==
    { [seekers |-> << Vec(3, 4), Vec(5, 4) >>, goals |-> << Vec(4, 2), Vec(1, 5) >>] }

InitGrpc ==
    \E c \in GrpcConfigs, layout \in GrpcLayouts, ais \in [PlayerIds -> GrpcAis] :
        /\ ais[1] = "chase"
        /\ ais[2] # "chase"
        /\ c.global_wait_for_players \/ ais[2] = "mimic"
        /\ InitWith(c, [p \in PlayerIds |-> "grpc"], ais, layout)

\* games whose players are all gRPC clients
SpecGrpc == InitGrpc /\ [][NextGrpc]_vars

----------------------------------------------------------------------------
(* Properties of the gRPC game *)

\* C2: a game of gRPC clients with wait-for-players on that runs to its playtime ends
\* with the scores of the game of local players with the same seed and the same
\* decision functions.
C2_SameScoresAsLocalGame ==
    (pc = "done" /\ cfg.global_wait_for_players /\ ~hist.quit /\ ~hist.aborted) =>
        \A p \in PlayerIds :
            players[p].score =
                state_at(hist.init, cfg.global_playtime, physics_of(cfg)).players[p].score

\* C3: with wait-for-players on, game_logic.tick starts only when every poll of the
\* round was let through by a was_updated signal set since the last physics step.
C3_TickAfterFreshUpdates ==
    (pc = "tick" /\ cfg.global_wait_for_players /\ ticks >= 1) => ~hist.passed_stale

\* C4: no handler sleeps on next_game_tick_event, the pulse behind it, while the game
\* thread waits in poll_ai for the next batch of the same client.
C4_NoLostWakeup ==
    \A p \in PlayerIds :
        ~ ( /\ cfg.global_wait_for_players
            /\ handler[p].pc = "blocked"
            /\ pc = "poll" /\ poll_idx = p
            /\ ~was_updated[p] )

\* C5: while game_logic.tick runs, no step of another thread changes the target or the
\* magnet of a seeker.
C5_NoWriteDuringTick ==
    [][ (pc = "tick_rest" /\ pc' = "tick_rest") =>
            \A s \in DOMAIN seekers :
                /\ seekers'[s].target = seekers[s].target
                /\ seekers'[s].magnet = seekers[s].magnet ]_vars

\* C28: with wait-for-players on, the response to a non-empty Command request carries
\* a passed_playtime that is the one of the client's previous such response plus 1.
C28_ResponsesAdvanceByOne ==
    [][ \A p \in PlayerIds :
          ( /\ cfg.global_wait_for_players
            /\ hist.answered[p]
            /\ handler[p].pc = "respond"
            /\ handler'[p].pc = "none"
            /\ pc' = pc ) =>
              client'[p].last_gametime = client[p].last_gametime + 1 ]_vars

\* C38: after every status update of a client, each seeker of its mirror has the
\* disabled_counter that the response carried for that seeker, whether the mirror was
\* made from the response or updated in place.
C38_MirrorCarriesDisabledCounter ==
    [][ \A p \in DOMAIN client :
          (client'[p].mirror # client[p].mirror /\ client'[p].mirror # NoStatus) =>
              \A s \in DOMAIN client'[p].mirror.seekers :
                  s \in DOMAIN current_status'.seekers =>
                      client'[p].mirror.seekers[s].disabled_counter
                          = current_status'.seekers[s].disable_counter ]_vars

\* C19: after a client has stopped sending commands the game goes on to its playtime:
\* a game that has ended after a client closed, without a QUIT event, has done
\* global_playtime ticks and its loop was not aborted, also with wait-for-players on.
C19_GameSurvivesClientClose ==
    (pc = "done" /\ ~hist.quit /\ \E p \in PlayerIds : client[p].closed) =>
        (ticks = cfg.global_playtime /\ ~hist.aborted)

----------------------------------------------------------------------------
(* Command requests of any client: tokens, unknown seekers, magnets out of range *)

\* the token join_game gave to player p (get_id("Token")): one per player
token_of(p) == p

\* the tokens a request may carry: one per player id; the token that goes with the id
\* of a local player is one that nobody was given
CommandTokens == PlayerIds

\* the commands of the modelled requests: seeker 9 is in no game
Commands == [id : {1, 2, 9}, target : {Vec(4, 4)}, magnet : {1, 2}]

\* the requests: no command, one command, or two commands for different seekers that
\* ask for magnet 1, the first for a seeker of the game
CommandLists ==
    {<< >>} \cup { <<a>> : a \in Commands }
            \cup { l \in { <<a, b>> : a, b \in { x \in Commands : x.magnet = 1 } } :
                      l[1].id # 9 /\ l[2].id # l[1].id }

\* the owner test of Command
owns(P, S, token, id) ==
    P[S[id].owner].kind = "grpc" /\ token_of(S[id].owner) = token

RECURSIVE command_loop_unchecked(_, _, _, _, _)
\* a loop that looks the seeker up but does not ask whose it is
command_loop_unchecked(P, S, token, commands, k) ==
    IF k > Len(commands) THEN [seekers |-> S, status |-> "OK"]
    ELSE LET command == commands[k]
         IN  IF command.id \notin DOMAIN S THEN [seekers |-> S, status |-> "NOT_FOUND"]
             ELSE LET m == magnet_set(S[command.id].magnet, command.magnet)
                      S1 == [S EXCEPT ![command.id].target = command.target,
                                      ![command.id].magnet = m.strength]
                  IN  IF m.error # "none" THEN [seekers |-> S1, status |-> m.error]
                      ELSE command_loop_unchecked(P, S1, token, commands, k + 1)

RECURSIVE command_loop(_, _, _, _, _)
\* Command, `for command in request.commands`: the seekers after it and how it ended:
\* "OK", the status of context.abort, or the ValueError of the Magnet setter, which
\* nothing in the handler catches
command_loop(P, S, token, commands, k) ==
    IF k > Len(commands) THEN [seekers |-> S, status |-> "OK"]
    ELSE LET command == commands[k]
         IN  IF command.id \notin DOMAIN S THEN [seekers |-> S, status |-> "NOT_FOUND"]
             ELSE IF ~owns(P, S, token, command.id)
             THEN [seekers |-> S, status |-> "PERMISSION_DENIED"]
             ELSE LET m == magnet_set(S[command.id].magnet, command.magnet)
                      S1 == [S EXCEPT ![command.id].target = command.target,
                                      ![command.id].magnet = m.strength]
                  IN  IF m.error # "none" THEN [seekers |-> S1, status |-> m.error]
                      ELSE command_loop(P, S1, token, commands, k + 1)

\* a Command request reaches a thread of the pool (requests come one after the other)
RequestArrives ==
    /\ server_running
    /\ handler[1].pc = "none"
    /\ \E token \in CommandTokens, commands \in CommandLists :
          handler' = [handler EXCEPT ![1] = [pc |-> "received", token |-> token,
                                             commands |-> commands]]
    /\ UNCHANGED handler_unchanged
    /\ UNCHANGED <<was_updated, next_game_tick_event, current_status, client, hist>>

\* Command, from the loop over the commands to next_game_tick_event.wait(), or to the
\* return of an empty request, or to the abort
CommandHandle ==
    /\ handler[1].pc = "received"
    /\ LET req == handler[1]
           r == command_loop(players, seekers, req.token, req.commands, 1)
           done == r.status = "OK" /\ req.commands # << >>
           owner == seekers[req.commands[Len(req.commands)].id].owner
       IN  /\ seekers' = r.seekers
           /\ was_updated' = IF done THEN [was_updated EXCEPT ![owner] = TRUE]
                             ELSE was_updated
           /\ current_status' = IF req.commands = << >> /\ current_status = NoStatus
                                THEN generate_status(players, seekers, goals, ticks)
                                ELSE current_status
           /\ handler' = [handler EXCEPT ![1] =
                              [pc |-> IF ~done THEN "none"
                                      ELSE IF next_game_tick_event THEN "respond"
                                      ELSE "blocked"]]
           /\ hist' = [hist EXCEPT !.error = r.status]
    /\ UNCHANGED <<cfg, players, goals, rng, ticks, pc, running, frame_i, poll_idx,
                   ai_output, ai_players, next_game_tick_event, client>>

\* Command returns its copy of current_status
CommandReturn ==
    /\ handler[1].pc = "respond"
    /\ handler' = [handler EXCEPT ![1] = [pc |-> "none"]]
    /\ UNCHANGED handler_unchanged
    /\ UNCHANGED <<was_updated, next_game_tick_event, current_status, client, hist>>

NextCommand ==
    \/ HandleEvents
    \/ LoopHead
    \/ NewTickGenerate
    \/ NewTickSet
    \/ NewTickClear
    \/ CallAi
    \/ ProcessAiOutput
    \/ PollNoWait
    \/ PollsDone
    \/ TickSeekers
    \/ TickRest
    \/ Draw
    \/ StopServer
    \/ RequestArrives
    \/ CommandHandle
    \/ CommandReturn

\* games of one tick with a gRPC player and a second player that is a gRPC or a local
\* one; the game thread does not wait for the clients
CommandConfigs ==
    [ global_speed : {1}, global_playtime : {1},
      global_seed : {1}, dont_kill : {FALSE}, global_wait_for_players : {FALSE},
      grpc : {TRUE}, global_seekers : {1}, goal_scoring_time : {1},
      seeker_disabled_time : {2} ]

InitCommand ==
    \E c \in CommandConfigs, layout \in GrpcLayouts, kind \in {"grpc", "local"},
       ai \in {"chase", "partial"} :
        /\ ai = IF kind = "grpc" THEN "chase" ELSE "partial"
        /\ InitWith(c, [p \in PlayerIds |-> IF p = 1 THEN "grpc" ELSE kind],
                    [p \in PlayerIds |-> IF p = 1 THEN "chase" ELSE ai], layout)

SpecCommand == InitCommand /\ [][NextCommand]_vars

\* the step is the handler's: it takes the request it has received
handles_request ==
    handler[1].pc = "received" /\ handler'[1].pc # "received" /\ pc' = pc

\* C13: assigning a strength outside [-8, 1] raises ValueError and leaves the stored
\* strength as it was; so every magnet strength is in [-8, 1] in every state, whatever
\* the AI outputs and the Command requests ask for: a request whose first command
\* asks its own seeker for such a strength ends in ValueError, an AI output whose first
\* element does so is rejected, and the strength is the one before.
C13_MagnetStrengthInRange ==
    /\ [](\A s \in DOMAIN seekers : seekers[s].magnet \in -8 .. 1)
    /\ [][ (/\ handles_request
            /\ handler[1].commands # << >>
            /\ handler[1].commands[1].id \in DOMAIN seekers
            /\ owns(players, seekers, handler[1].token, handler[1].commands[1].id)
            /\ handler[1].commands[1].magnet \notin -8 .. 1) =>
               /\ hist'.error = "ValueError"
               /\ seekers'[handler[1].commands[1].id].magnet
                     = seekers[handler[1].commands[1].id].magnet ]_vars
    /\ [][ (/\ pc = "process" /\ pc' # "process"
            /\ ai_output.kind = "list"
            /\ Len(ai_output.items) = 1
            /\ ai_output.items[1].flaw = "none"
            /\ ai_output.items[1].magnet \notin -8 .. 1) =>
               /\ hist'.error = "InvalidAiOutputError"
               /\ seekers'[ai_output.items[1].id].magnet
                     = seekers[ai_output.items[1].id].magnet ]_vars

\* a request for strength 2 has just been refused, and the seeker still has the
\* strength 1 of an earlier request
C13_Witness ==
    /\ hist.error = "ValueError"
    /\ seekers[1].magnet = 1
    /\ seekers[1].target = Vec(4, 4)

\* C14: a Command request changes the target or magnet of a seeker only if the seeker
\* belongs to the gRPC player with the token of the request, and it was named in the
\* request; nothing else of a seeker, and no player, goal or tick count, is written by
\* the handler; and a request whose first faulty command names an unknown seeker or
\* a seeker the token does not own ends with NOT_FOUND or PERMISSION_DENIED.
C14_OnlyOwnerToken ==
    [][ handles_request =>
          LET req == handler[1]
              n == Len(req.commands)
              named == { req.commands[k].id : k \in 1 .. n }
              denied == { k \in 1 .. n :
                            \/ req.commands[k].id \notin DOMAIN seekers
                            \/ ~owns(players, seekers, req.token, req.commands[k].id) }
              refused == { k \in 1 .. n : req.commands[k].magnet \notin -8 .. 1 }
          IN  /\ \A s \in DOMAIN seekers :
                    /\ seekers'[s] # seekers[s] =>
                          (s \in named /\ owns(players, seekers, req.token, s))
                    /\ [seekers'[s] EXCEPT !.target = seekers[s].target,
                                           !.magnet = seekers[s].magnet] = seekers[s]
              /\ UNCHANGED <<players, goals, rng, ticks>>
              /\ (denied # {} /\ \A k \in refused : k > Min(denied)) =>
                    /\ hist'.error = IF req.commands[Min(denied)].id \in DOMAIN seekers
                                     THEN "PERMISSION_DENIED" ELSE "NOT_FOUND"
                    /\ was_updated' = was_updated ]_vars

\* player 1's token asked for its own seeker and then for player 2's: the first command
\* was applied, the request was denied, and the seeker of player 2 has its old target
C14_Witness ==
    /\ hist.error = "PERMISSION_DENIED"
    /\ players[2].kind = "grpc"
    /\ seekers[1].target = Vec(4, 4)
    /\ seekers[2].target = hist.init.seekers[2].target
    /\ seekers[2].magnet = 0

\* C31: a Command request that is refused (NOT_FOUND, PERMISSION_DENIED or the
\* ValueError of the magnet) changes no seeker and does not set was_updated.
C31_RejectedCommandChangesNothing ==
    [][ (handles_request /\ hist'.error # "OK") =>
            /\ seekers' = seekers
            /\ was_updated' = was_updated ]_vars

----------------------------------------------------------------------------
(* Command requests of clients with two seekers, and the poll of the game thread *)

NextBatch ==
    \/ HandleEvents
    \/ LoopHead
    \/ NewTickGenerate
    \/ NewTickSet
    \/ NewTickClear
    \/ WaitForUpdate
    \/ ClearUpdate
    \/ WaitTimeout
    \/ PollsDone
    \/ TickSeekers
    \/ TickRest
    \/ Draw
    \/ StopServer
    \/ \E p \in PlayerIds : ClientFirstTick(p)
    \/ \E p \in PlayerIds : ClientTick(p)
    \/ \E p \in PlayerIds : CommandTarget(p)
    \/ \E p \in PlayerIds : CommandMagnet(p)
    \/ \E p \in PlayerIds : CommandSet(p)
    \/ \E p \in PlayerIds : CommandWait(p)
    \/ \E p \in PlayerIds : CommandRespond(p)

\* games of one tick in which every player has two seekers and the game thread waits
\* for the clients
BatchConfigs ==
    [ global_speed : {1}, global_playtime : {1},
      global_seed : {1}, dont_kill : {FALSE}, global_wait_for_players : {TRUE},
      grpc : {TRUE}, global_seekers : {2}, goal_scoring_time : {1},
      seeker_disabled_time : {2} ]

\* a placement by start() of the four seekers
BatchLayouts == { l \in Layouts : l.seekers[1] = Vec(3, 4) }

\* the decide function of the first client returns all of its seekers or leaves the
\* first one out; the client sends one command for each seeker it got back
InitBatch ==
    \E c \in BatchConfigs, layout \in BatchLayouts, ai \in {"chase", "short"} :
        InitWith(c, [p \in PlayerIds |-> "grpc"],
                 [p \in PlayerIds |-> IF p = 1 THEN ai ELSE "chase"], layout)

SpecBatch == InitBatch /\ [][NextBatch]_vars

\* the seekers the commands of a request name
named_ids(commands) == { commands[k].id : k \in 1 .. Len(commands) }

\* C29: the handler sets the was_updated event of a player only when the request had
\* a command for every seeker of that player, and the poll of the game thread
\* (was_updated.wait) does not return for a player whose request in flight names only
\* some of the player's seekers.
C29_UpdatedAfterFullBatch ==
    /\ [][ \A p \in PlayerIds :
             (handler[p].pc = "set" /\ handler'[p].pc = "wait") =>
                 SeekersOf(seekers, p) \subseteq named_ids(handler[p].commands) ]_vars
    /\ [][ (/\ pc = "poll" /\ pc' = "poll_clear"
            /\ handler[poll_idx].pc \in {"wait", "blocked", "respond"}) =>
               SeekersOf(seekers, poll_idx)
                   \subseteq named_ids(handler[poll_idx].commands) ]_vars

----------------------------------------------------------------------------
(* Join: GrpcSeekersServicer.Join / join_game and SeekersGame.add_player *)

\* A player name is [base, suffix]: the text the client typed and the counters that
\* join_game appended, so [base |-> "A", suffix |-> <<2>>] is "A (2)".  A client may
\* type "A (2)" itself: the same name.
Name(base, suffix) == [base |-> base, suffix |-> suffix]

\* the names clients ask for, after request.name.strip(); the last one is empty
JoinNames == { Name("A", << >>), Name("A", <<2>>), Name("B", << >>), Name("", << >>) }

\* the handler threads of the pool that serve Join
JoinThreads == 1 .. 2

\* the largest global_players of the games that clients join
MaxJoinPlayers == 3

\* f"{name} ({i})"
suffixed(name, i) == [name EXCEPT !.suffix = Append(@, i)]

\* {p.name for p in self.game.players.values()}
names_of(P) == { P[k].name : k \in DOMAIN P }

\* a test that only looks at the names of the players who joined over the network
name_taken_grpc_only(P, name) ==
    name \in { P[k].name : k \in { j \in DOMAIN P : P[j].kind = "grpc" } }

\* the condition of the while loop of join_game
name_taken(P, name) == name \in names_of(P)

\* SeekersGame.camps is non-empty: start() has set the camps up
game_started == pc # "listen"

RECURSIVE random_positions(_, _)
\* n calls of world.random_position(), from generator state r
random_positions(r, n) ==
    IF n = 0 THEN << >>
    ELSE << random_position(r).position >> \o random_positions(random_position(r).rng, n - 1)

\* listen() has seen global_players players, and start() makes the goals, gives every
\* player its seekers and sets up the camps; mainloop begins
StartGame ==
    /\ pc = "listen"
    /\ Len(players) >= cfg.global_players
    /\ LET n == Len(players) * cfg.global_seekers
           at == random_positions(cfg.global_seed, config.global_goals + n)
       IN  /\ goals' = [i \in GoalIdx |-> new_goal(at[i])]
           /\ seekers' = [k \in 1 .. n |->
                            new_seeker(((k - 1) \div cfg.global_seekers) + 1,
                                       at[config.global_goals + k])]
    /\ pc' = "events"
    /\ UNCHANGED <<cfg, players, rng, ticks, running, frame_i, poll_idx, ai_output,
                   ai_players, grpc_vars, hist>>

join_unchanged ==
    <<cfg, seekers, goals, rng, ticks, pc, running, frame_i, poll_idx, ai_output,
      ai_players, was_updated, next_game_tick_event, current_status, client, hist>>

\* Join, up to the call of join_game: an empty name is refused
JoinArrives(h, name) ==
    /\ handler[h].pc \in {"none", "returned"}
    /\ handler' = [handler EXCEPT ![h] =
                      IF name.base = ""
                      THEN [pc |-> "returned", status |-> "INVALID_ARGUMENT", asked |-> name]
                      ELSE [pc |-> "name", asked |-> name, requested_name |-> name,
                            i |-> 2]]
    /\ UNCHANGED players
    /\ UNCHANGED join_unchanged

\* join_game: one test of the while condition, and one turn of the loop if it holds
JoinName(h) ==
    /\ handler[h].pc = "name"
    /\ handler' = [handler EXCEPT ![h] =
                      IF name_taken(players, handler[h].requested_name)
                      THEN [@ EXCEPT !.requested_name = suffixed(handler[h].asked, handler[h].i),
                                     !.i = @ + 1]
                      ELSE [@ EXCEPT !.pc = "add"]]
    /\ UNCHANGED players
    /\ UNCHANGED join_unchanged

\* add_player, the two tests: GameFullError in both cases, which Join turns into
\* RESOURCE_EXHAUSTED
JoinAdd(h) ==
    /\ handler[h].pc = "add"
    /\ handler' = [handler EXCEPT ![h] =
                      IF game_started \/ Len(players) >= cfg.global_players
                      THEN [pc |-> "returned", status |-> "RESOURCE_EXHAUSTED",
                            asked |-> handler[h].asked]
                      ELSE [@ EXCEPT !.pc = "insert"]]
    /\ UNCHANGED players
    /\ UNCHANGED join_unchanged

\* add_player: self.players |= {player_.id: player_}; then the token is noted and
\* Join returns the JoinResponse
JoinInsert(h) ==
    /\ handler[h].pc = "insert"
    /\ players' = Append(players, [kind |-> "grpc", ai |-> "chase", score |-> 0,
                                   name |-> handler[h].requested_name,
                                   asked |-> handler[h].asked])
    /\ handler' = [handler EXCEPT ![h] =
                      [pc |-> "returned", status |-> "OK", asked |-> handler[h].asked]]
    /\ UNCHANGED join_unchanged

\* Joins that come one after the other: one handler at a time
NextJoin ==
    \/ StartGame
    \/ \E name \in JoinNames : JoinArrives(1, name)
    \/ JoinName(1)
    \/ JoinAdd(1)
    \/ JoinInsert(1)

\* Joins on the threads of the pool
NextJoinThreads ==
    \/ StartGame
    \/ \E h \in JoinThreads, name \in JoinNames : JoinArrives(h, name)
    \/ \E h \in JoinThreads : JoinName(h)
    \/ \E h \in JoinThreads : JoinAdd(h)
    \/ \E h \in JoinThreads : JoinInsert(h)

JoinConfigs ==
    [ global_players : 2 .. MaxJoinPlayers, global_speed : {1}, global_playtime : {1},
      global_seed : {1}, dont_kill : {FALSE}, global_wait_for_players : {TRUE},
      grpc : {TRUE}, global_seekers : {1}, goal_scoring_time : {1},
      seeker_disabled_time : {2} ]

\* SeekersGame.__init__ with no or one local player (its name is the path of its file),
\* and listen() has started the server
InitJoin ==
    \E c \in JoinConfigs, locals \in {<< >>, << Name("A", << >>) >>} :
        /\ cfg = c
        /\ players = [k \in DOMAIN locals |->
                         [kind |-> "local", ai |-> "chase", score |-> 0,
                          name |-> locals[k], asked |-> locals[k]]]
        /\ seekers = << >>
        /\ goals = << >>
        /\ rng = c.global_seed
        /\ ticks = 0
        /\ pc = "listen"
        /\ running = TRUE
        /\ frame_i = 0
        /\ poll_idx = 0
        /\ ai_output = NoOutput
        /\ ai_players = << >>
        /\ was_updated = << >>
        /\ next_game_tick_event = FALSE
        /\ current_status = NoStatus
        /\ handler = [h \in JoinThreads |-> [pc |-> "none"]]
        /\ client = << >>
        /\ hist = [error |-> "none"]

SpecJoin == InitJoin /\ [][NextJoin]_vars

SpecJoinThreads == InitJoin /\ [][NextJoinThreads]_vars

\* all player names are pairwise distinct
names_distinct ==
    \A j, k \in DOMAIN players : j # k => players[j].name # players[k].name

\* the name join_game is to give: the asked one if no player has it, else the first
\* "N (i)", i >= 2, that no player has
first_free(P, name) ==
    IF name \notin names_of(P) THEN name
    ELSE LET free == { i \in 2 .. (Len(P) + 2) : suffixed(name, i) \notin names_of(P) }
         IN  suffixed(name, Min(free))

\* C15: with Joins one after the other, the player that a Join adds has the asked name
\* if no player had it and else the first "N (i)", i >= 2, that no player had; so the
\* k-th of k players that all asked for N is called N for k = 1 and "N (k)" after, and
\* all player names are pairwise distinct.
C15_SequentialJoinNames ==
    /\ [][ Len(players') > Len(players) =>
             players'[Len(players')].name = first_free(players, handler[1].asked) ]_vars
    /\ [](\A k \in DOMAIN players :
             (\A j \in 1 .. k : players[j].asked = players[1].asked
                                 /\ players[j].asked.suffix = << >>) =>
                 players[k].name = IF k = 1 THEN players[1].asked
                                   ELSE suffixed(players[1].asked, k))
    /\ []names_distinct

\* three players asked for "A": they are A, A (2) and A (3)
C15_Witness ==
    /\ Len(players) = 3
    /\ \A k \in 1 .. 3 : players[k].kind = "grpc" /\ players[k].asked = Name("A", << >>)
    /\ players[3].name = Name("A", <<3>>)

\* C16: whatever the interleaving of the Join handlers, two Joins that ask for the same
\* name never both get it: the player names are pairwise distinct in every state.
C16_ConcurrentJoinsDistinct ==
    \A j, k \in DOMAIN players :
        (j < k /\ players[j].asked = players[k].asked) => players[j].name # players[k].name

\* C17: a Join that is refused because the game has started ends with INVALID_ARGUMENT,
\* one that is refused because the game is full and has not started with
\* RESOURCE_EXHAUSTED.
C17_DistinctJoinRejections ==
    [][ (handler[1].pc = "add" /\ handler'[1].pc = "returned") =>
            handler'[1].status = IF game_started THEN "INVALID_ARGUMENT"
                                 ELSE "RESOURCE_EXHAUSTED" ]_vars

\* C30: whatever the interleaving of the Join handlers, the game never has more than
\* config.global_players players, and a Join that is refused leaves the players (and
\* with them the tokens, one per joined player) as they were.
C30_PlayersWithinCapacity ==
    /\ [](Len(players) <= cfg.global_players)
    /\ [][ \A h \in JoinThreads :
             (/\ handler'[h] # handler[h]
              /\ handler'[h].pc = "returned"
              /\ handler'[h].status # "OK") => players' = players ]_vars

----------------------------------------------------------------------------
(* GrpcSeekersClient.update_state over responses whose ids vary *)

\* the player a seeker id belongs to in the responses below: 1 and 3 to player 1,
\* 2 to player 2
reply_owner(s) == ((s - 1) % 2) + 1

\* a CommandResponse with the players, seekers and goals of ids at game time t.
\* With `dangling` a player lists all its seekers in seeker_ids, those that the
\* response has no seeker for included; with `orphan` the response has no camp for
\* its last player; goal 1 belongs to the camp `camp`.
Response(ids, dangling, orphan, camp, t) ==
    [players |-> [p \in ids.players |->
                    [score |-> t,
                     seeker_ids |-> { s \in IF dangling THEN 1 .. 3 ELSE ids.seekers :
                                        reply_owner(s) = p },
                     camp_id |-> p]],
     seekers |-> [s \in ids.seekers |->
                    [owner |-> reply_owner(s), position |-> Vec(s, t),
                     velocity |-> Vec(0, 0), target |-> Vec(s, t), magnet |-> 0,
                     disable_counter |-> 0]],
     goals |-> [g \in ids.goals |->
                    [position |-> Vec(g, t), velocity |-> Vec(0, 0),
                     camp_id |-> IF g = 1 THEN camp ELSE NoOwner,
                     time_owned |-> t]],
     camps |-> IF orphan THEN ids.players \ {Max(ids.players)} ELSE ids.players,
     passed_playtime |-> t]

\* the responses: every seeker of a response belongs to a player of the response
ResponseIds ==
    { ids \in [players : {{1, 2}, {1}},
               seekers : {{1, 2}, {1}, {1, 3}},
               goals : {{1, 2}, {1}}] :
        \A s \in ids.seekers : reply_owner(s) \in ids.players }

Responses ==
    { Response(ids, d, o, c, t) :
        ids \in ResponseIds, d \in BOOLEAN, o \in BOOLEAN, c \in {NoOwner, 2},
        t \in 1 .. 2 }

\* what tick() can raise before update_state is reached: ServerUnavailableError of
\* send_commands, the status code of a failed RPC (PERMISSION_DENIED is what Command
\* aborts with for a token it does not know), an AssertionError of the decide function
TickErrors ==
    {"ServerUnavailableError", "UNAVAILABLE", "CANCELLED", "UNKNOWN",
     "PERMISSION_DENIED", "AssertionError"}

\* one pass of the loop of run(): tick() with the response of the Command call given
\* to update_state, and the except clauses for what it raised
ClientUpdate ==
    /\ ~client[1].closed
    /\ \E response \in Responses :
          LET r == update_state(client[1], response)
          IN  /\ current_status' = response
              /\ client' = [client EXCEPT ![1] = run_tick(client[1].careful_mode, r)]
              /\ hist' = [error |-> r.error,
                          run |-> run_except(client[1].careful_mode, r.error)]
    /\ UNCHANGED <<cfg, game_vars, pc, running, frame_i, poll_idx, ai_output,
                   ai_players, was_updated, next_game_tick_event, handler>>

\* one pass of the loop of run() in which tick() raises before a response is there
ClientTickRaises ==
    /\ ~client[1].closed
    /\ \E error \in TickErrors :
          /\ client' = [client EXCEPT
                           ![1] = run_tick(client[1].careful_mode,
                                           [client |-> client[1], error |-> error])]
          /\ hist' = [error |-> error,
                      run |-> run_except(client[1].careful_mode, error)]
    /\ UNCHANGED <<cfg, game_vars, pc, running, frame_i, poll_idx, ai_output,
                   ai_players, was_updated, next_game_tick_event, handler,
                   current_status>>

NextClient ==
    \/ ClientUpdate
    \/ ClientTickRaises

\* GrpcSeekersClient.__init__: last_gametime = -1, no players, seekers or goals,
\* careful_mode as given
InitClient ==
    \E c \in CommandConfigs, careful_mode \in BOOLEAN :
        /\ cfg = c
        /\ players = << >>
        /\ seekers = << >>
        /\ goals = << >>
        /\ rng = c.global_seed
        /\ ticks = 0
        /\ pc = "listen"
        /\ running = TRUE
        /\ frame_i = 0
        /\ poll_idx = 0
        /\ ai_output = NoOutput
        /\ ai_players = << >>
        /\ was_updated = << >>
        /\ next_game_tick_event = FALSE
        /\ current_status = NoStatus
        /\ handler = << >>
        /\ client = [p \in {1} |->
                        [last_gametime |-> -1, mirror |-> NoStatus, closed |-> FALSE,
                         careful_mode |-> careful_mode]]
        /\ hist = [error |-> "none", run |-> "continue"]

SpecClient == InitClient /\ [][NextClient]_vars

\* C20: once update_state has returned, the ids of the mirrored players, seekers and
\* goals are the ids of the response it was given: a mirror entry whose id the
\* response lacks has made it rebuild the mirrors.
C20_MirrorsMatchResponse ==
    (current_status # NoStatus /\ hist.error = "none") =>
        /\ DOMAIN client[1].mirror.scores = DOMAIN current_status.players
        /\ DOMAIN client[1].mirror.seekers = DOMAIN current_status.seekers
        /\ DOMAIN client[1].mirror.goals = DOMAIN current_status.goals

\* C21: with careful mode off a response that names an id it does not hold never ends
\* the run loop by an exception: the client is still running after it.
C21_InvalidResponseNoCrash ==
    (~client[1].careful_mode /\ hist.error \notin TickErrors) => hist.run # "raised"

\* C22: run returns normally when the server is unavailable, in both modes; another
\* GrpcSeekersClientError and an RPC error UNKNOWN leave run in careful mode and are
\* ignored, the loop going on, in non-careful mode.
C22_RunEndsOnUnavailable ==
    /\ hist.error \in {"ServerUnavailableError", "UNAVAILABLE", "CANCELLED"} =>
           hist.run = "returned" /\ client[1].closed
    /\ hist.error \in {"GrpcSeekersClientError", "UNKNOWN"} =>
           /\ hist.run = IF client[1].careful_mode THEN "raised" ELSE "continue"
           /\ client[1].closed = client[1].careful_mode

\* run has returned on UNAVAILABLE in careful mode after a first response
C22_Witness ==
    /\ client[1].careful_mode
    /\ client[1].last_gametime = 1
    /\ hist.error = "UNAVAILABLE"
    /\ hist.run = "returned"

----------------------------------------------------------------------------
(* LocalPlayer with a decide function that writes to the objects it is given *)

\* LocalPlayer.init_ai_state: deep copies of the goals and of all seekers, and new
\* Player objects with the scores of that moment
init_ai_state(G, P, S) ==
    [scores |-> [q \in DOMAIN P |-> P[q].score],
     seekers |-> [s \in DOMAIN S |->
                    [id |-> s, owner |-> S[s].owner, position |-> S[s].position,
                     velocity |-> S[s].velocity, target |-> S[s].target,
                     magnet |-> S[s].magnet,
                     disabled_counter |-> S[s].disabled_counter]],
     goals |-> [i \in DOMAIN G |->
                    [position |-> G[i].position, velocity |-> G[i].velocity,
                     owner |-> G[i].owner, time_owned |-> G[i].time_owned]]]

\* LocalPlayer.update_ai_state: position, velocity, owner and time_owned of the goal
\* copies and position, velocity, target, disabled_counter and magnet of the seeker
\* copies are written anew; nothing else is (ids, scores)
update_ai_state(st, G, P, S) ==
    LET st0 == IF st = << >> THEN init_ai_state(G, P, S) ELSE st
    IN  [st0 EXCEPT
            !.goals = [i \in DOMAIN @ |->
                          [@[i] EXCEPT !.position = G[i].position,
                                       !.velocity = G[i].velocity,
                                       !.owner = G[i].owner,
                                       !.time_owned = G[i].time_owned]],
            !.seekers = [s \in DOMAIN @ |->
                          [@[s] EXCEPT !.position = S[s].position,
                                       !.velocity = S[s].velocity,
                                       !.target = S[s].target,
                                       !.disabled_counter = S[s].disabled_counter,
                                       !.magnet = S[s].magnet]]]

\* an input built without copying: every seeker handed over is the game's own object
get_ai_input_shared(st, G, P, S) ==
    [state |-> update_ai_state(st, G, P, S), shared |-> DOMAIN S]

\* LocalPlayer.get_ai_input: the lists are made of the objects of _ai_players and
\* _ai_goals, and the world is a new World; `shared` are the seekers of the game that
\* the decide function can reach through its arguments: none
get_ai_input(st, G, P, S) ==
    [state |-> update_ai_state(st, G, P, S), shared |-> {}]

\* what a decide function may write in its arguments
Vandalisms == {"position", "disabled", "foe", "goals", "score", "id"}

\* the AI state after the decide function has written to its arguments in the way v
vandalise(st, me, v) ==
    LET own == { s \in DOMAIN st.seekers : st.seekers[s].owner = me }
    IN  CASE v = "position" ->
               [st EXCEPT !.seekers = [s \in DOMAIN @ |->
                            [@[s] EXCEPT !.position = ZeroVec, !.velocity = Vec(1, 1)]]]
          [] v = "disabled" ->
               [st EXCEPT !.seekers = [s \in DOMAIN @ |->
                            [@[s] EXCEPT !.disabled_counter = 3]]]
          [] v = "foe" ->
               [st EXCEPT !.seekers = [s \in DOMAIN @ |->
                            IF s \in own THEN @[s]
                            ELSE [@[s] EXCEPT !.target = ZeroVec, !.magnet = -8]]]
          [] v = "goals" ->
               [st EXCEPT !.goals = [i \in DOMAIN @ |->
                            [@[i] EXCEPT !.position = ZeroVec, !.owner = me,
                                         !.time_owned = 9]]]
          [] v = "score" -> [st EXCEPT !.scores[me] = 9]
          [] OTHER ->
               [st EXCEPT !.seekers = [s \in DOMAIN @ |->
                            IF s \in own
                            THEN [@[s] EXCEPT !.id = IF @ = Min(own) THEN Max(own)
                                                     ELSE IF @ = Max(own) THEN Min(own)
                                                     ELSE @]
                            ELSE @[s]]]

\* the decide function: it writes to its arguments, then sends its own seekers, as
\* they are in my_seekers, to the first goal with the magnet on
decide_vandal(st, me, v) ==
    LET st1 == vandalise(st, me, v)
        own == SortedSeq({ s \in DOMAIN st1.seekers : st1.seekers[s].owner = me })
        st2 == [st1 EXCEPT !.seekers = [s \in DOMAIN @ |->
                    IF @[s].owner = me
                    THEN [@[s] EXCEPT !.target = st1.goals[1].position, !.magnet = 1]
                    ELSE @[s]]]
    IN  [state |-> st2,
         output |-> [kind |-> "list",
                     items |-> [i \in 1 .. Len(own) |->
                                  [id |-> st2.seekers[own[i]].id,
                                   target |-> st2.seekers[own[i]].target,
                                   magnet |-> st2.seekers[own[i]].magnet,
                                   flaw |-> "none"]]]]

\* LocalPlayer.poll_ai, first half, for this decide function: get_ai_input and
\* call_ai; what the function writes lands in the objects it was given
CallVandalAi ==
    /\ pc = "poll"
    /\ poll_idx <= config.global_players
    /\ players[poll_idx].kind = "local"
    /\ players[poll_idx].ai = "vandal"
    /\ \E v \in Vandalisms :
          LET in == get_ai_input(ai_players[poll_idx], goals, players, seekers)
              r == decide_vandal(in.state, poll_idx, v)
          IN  /\ ai_output' = r.output
              /\ ai_players' = [ai_players EXCEPT ![poll_idx] = r.state]
              /\ seekers' = [s \in DOMAIN seekers |->
                                IF s \in in.shared
                                THEN [seekers[s] EXCEPT
                                        !.position = r.state.seekers[s].position,
                                        !.velocity = r.state.seekers[s].velocity,
                                        !.target = r.state.seekers[s].target,
                                        !.magnet = r.state.seekers[s].magnet,
                                        !.disabled_counter =
                                            r.state.seekers[s].disabled_counter]
                                ELSE seekers[s]]
    /\ pc' = "process"
    /\ UNCHANGED <<cfg, players, goals, rng, ticks, running, frame_i, poll_idx,
                   grpc_vars, hist>>

NextAiState ==
    \/ NextGame
    \/ CallVandalAi

\* local games in which player 1, or both players, write to their input
InitAiState ==
    \E c \in GameConfigs, layout \in Layouts, ai2 \in {"chase", "vandal"} :
        /\ c.global_speed = 1
        /\ c.global_playtime <= 2
        /\ ~c.dont_kill
        /\ InitWith(c, [p \in PlayerIds |-> "local"],
                    [p \in PlayerIds |-> IF p = 1 THEN "vandal" ELSE ai2], layout)

SpecAiState == InitAiState /\ [][NextAiState]_vars

\* C23: a poll_ai of a player whose decide function writes to its arguments changes
\* nothing of the game but the target and the magnet of that player's own seekers:
\* the call itself changes nothing, process_ai_output only those two attributes.
C23_PollChangesOnlyOwnCommands ==
    [][ (/\ poll_idx \in PlayerIds
         /\ players[poll_idx].ai = "vandal"
         /\ \/ pc = "poll" /\ pc' = "process"
            \/ pc = "process" /\ pc' # "process") =>
           /\ players' = players /\ goals' = goals /\ rng' = rng /\ ticks' = ticks
           /\ DOMAIN seekers' = DOMAIN seekers
           /\ \A s \in DOMAIN seekers :
                 /\ seekers'[s] = [seekers[s] EXCEPT !.target = seekers'[s].target,
                                                     !.magnet = seekers'[s].magnet]
                 /\ (seekers[s].owner # poll_idx \/ pc = "poll") =>
                        seekers'[s] = seekers[s] ]_vars

\* player 1 has written disabled counters into its copies, and its own seekers have
\* got the magnet it asked for
C23_Witness ==
    /\ pc = "poll" /\ poll_idx = 2
    /\ ai_players[1] # << >>
    /\ \A s \in DOMAIN seekers :
          /\ ai_players[1].seekers[s].disabled_counter = 3
          /\ seekers[s].disabled_counter = 0
          /\ seekers[s].owner = 1 => seekers[s].magnet = 1

----------------------------------------------------------------------------
(* World: the torus geometry as functions of their arguments *)

\* Python floats in small: a number is an integer count of the smallest step, and a
\* result keeps MantissaBits significant bits, rounded to nearest, ties to even
MantissaBits == 4

\* the distance between two neighbouring representable numbers around n >= 0
RECURSIVE ulp(_)
ulp(n) == IF n < 2 ^ MantissaBits THEN 1 ELSE 2 * ulp(n \div 2)

\* the representable number an exact result n is rounded to
fl(n) ==
    LET a == Abs(n)
        u == ulp(a)
        q == a \div u
        r == a % u
        up == 2 * r > u \/ (2 * r = u /\ q % 2 = 1)
    IN  Sgn(n) * (IF up THEN q + 1 ELSE q) * u

\* the world sizes in the steps of fl: 8 and 4 units of 8 steps
FloatWidth == config.map_width * 8
FloatHeight == (config.map_height \div 2) * 8

\* World.normalize_position on floats: math.floor(pos.x / width) * width is a
\* multiple of the width, the subtraction is rounded
normalize_position_float(pos) ==
    Vec(fl(pos.x - (pos.x \div FloatWidth) * FloatWidth),
        fl(pos.y - (pos.y \div FloatHeight) * FloatHeight))

\* the representable coordinates from two world sizes below zero to three above
FloatCoordinates == { n \in (0 - 2 * FloatWidth) .. (3 * FloatWidth) : fl(n) = n }

\* World.torus_distance, squared
squared_torus_distance(left, right) == squared_length(torus_difference(left, right))

\* a call of torus_difference and torus_distance
TorusDifference ==
    /\ pc = "torus"
    /\ hist' = [hist EXCEPT
                  !.difference = torus_difference(hist.left, hist.right),
                  !.squared_distance = squared_torus_distance(hist.left, hist.right)]
    /\ pc' = "difference"
    /\ UNCHANGED <<cfg, game_vars, running, frame_i, poll_idx, ai_output,
                   ai_players, grpc_vars>>

\* a call of normalize_position, which writes to the vector it is given
NormalizePosition ==
    /\ pc = "normalize"
    /\ hist.calls < 2
    /\ hist' = [hist EXCEPT !.before = hist.pos,
                            !.pos = normalize_position_float(hist.pos),
                            !.calls = @ + 1]
    /\ UNCHANGED <<cfg, game_vars, pc, running, frame_i, poll_idx, ai_output,
                   ai_players, grpc_vars>>

NextWorld ==
    \/ TorusDifference
    \/ NormalizePosition

\* two in-bounds positions for torus_difference, or any position for
\* normalize_position
InitWorld ==
    \E c \in CollisionConfigs, at \in {"torus", "normalize"} :
        \E left \in IF at = "torus" THEN Positions ELSE {ZeroVec},
           right \in IF at = "torus" THEN Positions ELSE {ZeroVec},
           x \in IF at = "torus" THEN {0} ELSE FloatCoordinates,
           y \in IF at = "torus" THEN {0} ELSE FloatCoordinates :
            /\ c.seeker_disabled_time = 1
            /\ cfg = c
            /\ players = << >>
            /\ seekers = << >>
            /\ goals = << >>
            /\ rng = c.global_seed
            /\ ticks = 0
            /\ pc = at
            /\ running = TRUE
            /\ frame_i = 0
            /\ poll_idx = 0
            /\ ai_output = NoOutput
            /\ ai_players = << >>
            /\ was_updated = << >>
            /\ next_game_tick_event = FALSE
            /\ current_status = NoStatus
            /\ handler = << >>
            /\ client = << >>
            /\ hist = [left |-> left, right |-> right, difference |-> ZeroVec,
                       squared_distance |-> 0,
                       original |-> Vec(x, y), pos |-> Vec(x, y), before |-> Vec(x, y),
                       calls |-> 0]

SpecWorld == InitWorld /\ [][NextWorld]_vars

\* the shorter way round on an axis of the given length
shortest(length, a, b) ==
    IF Abs(a - b) < length - Abs(a - b) THEN Abs(a - b) ELSE length - Abs(a - b)

\* C24: for in-bounds positions each component of torus_difference is, in absolute
\* value, the shorter of the direct and the wrapped way, so at most half the world,
\* and torus_distance is the length of the vector of those two shortest ways.
C24_TorusDifferenceShortest ==
    pc = "difference" =>
        /\ Abs(hist.difference.x) =
               shortest(config.map_width, hist.left.x, hist.right.x)
        /\ Abs(hist.difference.y) =
               shortest(config.map_height, hist.left.y, hist.right.y)
        /\ 2 * Abs(hist.difference.x) <= config.map_width
        /\ 2 * Abs(hist.difference.y) <= config.map_height
        /\ hist.squared_distance =
               shortest(config.map_width, hist.left.x, hist.right.x) ^ 2
               + shortest(config.map_height, hist.left.y, hist.right.y) ^ 2

\* C25: normalize_position yields a position inside the world, 0 <= x < width and
\* 0 <= y < height, that is the given one modulo the world size on each axis (up to
\* the rounding of one subtraction), and a second call changes nothing.
C25_NormalizeIntoWorld ==
    /\ hist.calls >= 1 =>
          /\ 0 <= hist.pos.x /\ hist.pos.x < FloatWidth
          /\ 0 <= hist.pos.y /\ hist.pos.y < FloatHeight
          /\ Abs(hist.pos.x - (hist.original.x % FloatWidth)) <= ulp(FloatWidth)
          /\ Abs(hist.pos.y - (hist.original.y % FloatHeight)) <= ulp(FloatHeight)
    /\ hist.calls = 2 => hist.pos = hist.before

----------------------------------------------------------------------------
(* Physical.collision on two entities of any masses, in exact arithmetic *)

MaxMass == 3

\* an exchange in which both entities get the impulse weighted with the same mass
collision_velocities_unweighted(a, b) ==
    LET dn == normalized(torus_difference(a.position, b.position))
        dvdn == Dot(VSub(b.velocity, a.velocity), dn)
        msum == a.mass + b.mass
    IN  [den |-> msum,
         self |-> IF dvdn < 0
                  THEN VAdd(VMul(a.velocity, msum), VMul(dn, 2 * b.mass * dvdn))
                  ELSE VMul(a.velocity, msum),
         other |-> IF dvdn < 0
                   THEN VSub(VMul(b.velocity, msum), VMul(dn, 2 * b.mass * dvdn))
                   ELSE VMul(b.velocity, msum)]

\* the velocities Physical.collision leaves, as fractions with the denominator
\* self.mass + other.mass: m * other.mass * dvdn is 2 * other.mass * dvdn / den
collision_velocities(a, b) ==
    LET dn == normalized(torus_difference(a.position, b.position))
        dvdn == Dot(VSub(b.velocity, a.velocity), dn)
        msum == a.mass + b.mass
    IN  [den |-> msum,
         self |-> IF dvdn < 0
                  THEN VAdd(VMul(a.velocity, msum), VMul(dn, 2 * b.mass * dvdn))
                  ELSE VMul(a.velocity, msum),
         other |-> IF dvdn < 0
                   THEN VSub(VMul(b.velocity, msum), VMul(dn, 2 * a.mass * dvdn))
                   ELSE VMul(b.velocity, msum)]

\* Physical.collision(other, world) for the pair in `seekers`
PhysicalCollision ==
    /\ pc = "collide"
    /\ hist' = [hist EXCEPT
                  !.after = collision_velocities(seekers[1], seekers[2]),
                  !.positions = << physical_collision(seekers[1], seekers[2])[1].position,
                                   physical_collision(seekers[1], seekers[2])[2].position >>]
    /\ pc' = "collided"
    /\ UNCHANGED <<cfg, game_vars, running, frame_i, poll_idx, ai_output,
                   ai_players, grpc_vars>>

\* two entities that touch or overlap, with any masses and velocities
InitPhysical ==
    \E c \in CollisionConfigs :
        \E m1 \in 1 .. MaxMass, m2 \in 1 .. MaxMass,
           v1 \in { Vec(x, y) : x \in -1 .. 2, y \in -1 .. 1 },
           v2 \in {ZeroVec, Vec(-1, 0), Vec(1, -2)},
           p2 \in {Vec(4, 3), Vec(3, 4), Vec(4, 4), Vec(3, 3), Vec(2, 3)} :
            /\ c.seeker_disabled_time = 1
            /\ cfg = c
            /\ players = << >>
            /\ seekers = << [new_seeker(1, Vec(3, 3)) EXCEPT !.mass = m1, !.velocity = v1],
                            [new_seeker(2, p2) EXCEPT !.mass = m2, !.velocity = v2] >>
            /\ goals = << >>
            /\ rng = c.global_seed
            /\ ticks = 0
            /\ pc = "collide"
            /\ running = TRUE
            /\ frame_i = 0
            /\ poll_idx = 0
            /\ ai_output = NoOutput
            /\ ai_players = << >>
            /\ was_updated = << >>
            /\ next_game_tick_event = FALSE
            /\ current_status = NoStatus
            /\ handler = << >>
            /\ client = << >>
            /\ hist = [after |-> [den |-> 1, self |-> v1, other |-> v2],
                       positions |-> << Vec(3, 3), p2 >>]

SpecPhysical == InitPhysical /\ [][PhysicalCollision]_vars

\* m1 * v1 + m2 * v2, times den, for velocities given as fractions over den
momentum(m1, v1, m2, v2) == VAdd(VMul(v1, m1), VMul(v2, m2))

\* C26: the total momentum m1 * v1 + m2 * v2 after Physical.collision is the one
\* before it, and so is its component along the collision normal.
C26_MomentumConserved ==
    pc = "collided" =>
        LET a == seekers[1]
            b == seekers[2]
            before == VMul(momentum(a.mass, a.velocity, b.mass, b.velocity),
                           hist.after.den)
            after == momentum(a.mass, hist.after.self, b.mass, hist.after.other)
            dn == normalized(torus_difference(a.position, b.position))
        IN  after = before /\ Dot(after, dn) = Dot(before, dn)

\* a light entity ran into a heavy one and both velocities changed
C26_Witness ==
    /\ pc = "collided"
    /\ seekers[1].mass = 1 /\ seekers[2].mass = 3
    /\ hist.after.self # VMul(seekers[1].velocity, hist.after.den)
    /\ hist.after.other # VMul(seekers[2].velocity, hist.after.den)

\* C40: after Physical.collision on two entities that overlap (distance below the sum
\* of the radii, distance 0 included) the entities are exactly r1 + r2 apart along the
\* collision normal.  Stated for pairs on a common axis, and for the pair at one
\* place, where the normal of the model is the normal of the code.
C40_SeparatedToSumOfRadii ==
    pc = "collided" =>
        LET a == seekers[1]
            b == seekers[2]
            d == VSub(b.position, a.position)
            dn == normalized(d)
            after == VSub(hist.positions[2], hist.positions[1])
        IN  ((d.x = 0 \/ d.y = 0) /\ Dot(d, dn) < a.radius + b.radius) =>
                /\ Dot(after, IF d = ZeroVec THEN normalized(after) ELSE dn)
                      = a.radius + b.radius
                /\ squared_length(after) = (a.radius + b.radius) * (a.radius + b.radius)

----------------------------------------------------------------------------
(* World.generate_camps for worlds, camp sizes and player counts that vary *)

MaxCampPlayers == 3

\* Lengths are kept as integers: a world of `width` x `height` with n players is
\* measured in units of 1 / (4 * n), in which the camp centres
\* (width / 2, delta * (i + 0.5)), delta = height / n, and all camp edges are whole.
camp_scale(n) == 4 * n

\* the Camp objects of the loop of generate_camps, for players 1 .. n
camp_list(width, height, camp_width, camp_height, n) ==
    [i \in 1 .. n |->
        [owner |-> i,
         position |-> Vec(2 * n * width, 2 * height * (2 * i - 1)),
         width |-> camp_scale(n) * camp_width,
         height |-> camp_scale(n) * camp_height]]

\* World.generate_camps(players, config): ValueError if camp_height > delta, else the
\* list of camps
generate_camps(width, height, camp_width, camp_height, n) ==
    IF camp_height * n > height
    THEN [error |-> "ValueError", camps |-> << >>]
    ELSE [error |-> "none",
          camps |-> camp_list(width, height, camp_width, camp_height, n)]

\* SeekersGame.start: self.camps = self.world.generate_camps(...)
GenerateCamps ==
    /\ pc = "camps"
    /\ LET r == generate_camps(cfg.map_width, cfg.map_height, cfg.camp_width,
                               cfg.camp_height, cfg.global_players)
       IN  hist' = [error |-> r.error, camps |-> r.camps]
    /\ pc' = IF hist'.error = "none" THEN "events" ELSE "crashed"
    /\ UNCHANGED <<cfg, game_vars, running, frame_i, poll_idx, ai_output,
                   ai_players, grpc_vars>>

\* the configurations: small worlds, camps smaller and larger than the world
CampConfigs ==
    [ map_width : {2, 4}, map_height : {4, 6},
      camp_width : 1 .. 5, camp_height : 1 .. 7,
      global_players : 1 .. MaxCampPlayers ]

InitCamps ==
    \E c \in CampConfigs :
        /\ cfg = c
        /\ players = << >>
        /\ seekers = << >>
        /\ goals = << >>
        /\ rng = 1
        /\ ticks = 0
        /\ pc = "camps"
        /\ running = TRUE
        /\ frame_i = 0
        /\ poll_idx = 0
        /\ ai_output = NoOutput
        /\ ai_players = << >>
        /\ was_updated = << >>
        /\ next_game_tick_event = FALSE
        /\ current_status = NoStatus
        /\ handler = << >>
        /\ client = << >>
        /\ hist = [error |-> "none", camps |-> << >>]

SpecCamps == InitCamps /\ [][GenerateCamps]_vars

\* the positions of the world of configuration c, in units of 1 / camp_scale
world_positions(c) ==
    { Vec(x, y) : x \in 0 .. (camp_scale(c.global_players) * c.map_width),
                  y \in 0 .. (camp_scale(c.global_players) * c.map_height) }

\* the camp, with its edges, lies in the world rectangle of configuration c
camp_inside(camp, c) ==
    /\ 2 * camp.position.x - camp.width >= 0
    /\ 2 * camp.position.x + camp.width <= 2 * camp_scale(c.global_players) * c.map_width
    /\ 2 * camp.position.y - camp.height >= 0
    /\ 2 * camp.position.y + camp.height <= 2 * camp_scale(c.global_players) * c.map_height

\* no position is in two of the camps
camps_disjoint(C, c) ==
    \A pos \in world_positions(c) :
        \A i, j \in DOMAIN C : (contains(C[i], pos) /\ contains(C[j], pos)) => i = j

\* C37: generate_camps raises the configuration error, with no camp made, whenever
\* the camps of the configured size would overlap or reach beyond the world; and when
\* it succeeds there is one camp per player, no position is in two camps and every
\* camp lies inside the world.
C37_CampsValidated ==
    pc # "camps" =>
        LET would == camp_list(cfg.map_width, cfg.map_height, cfg.camp_width,
                               cfg.camp_height, cfg.global_players)
            fits == /\ camps_disjoint(would, cfg)
                    /\ \A i \in DOMAIN would : camp_inside(would[i], cfg)
        IN  /\ ~fits => (hist.error = "ValueError" /\ hist.camps = << >>)
            /\ hist.error = "none" =>
                  /\ Len(hist.camps) = cfg.global_players
                  /\ \A i \in DOMAIN hist.camps : hist.camps[i].owner = i
                  /\ camps_disjoint(hist.camps, cfg)
                  /\ \A i \in DOMAIN hist.camps : camp_inside(hist.camps[i], cfg)

=============================================================================
